---- MODULE Spec2Model ----
(***************************************************************************)
(* A model of the entity matcher of sem (src/src/model/change.ts, which    *)
(* holds model/change.ts, model/entity.ts and model/identity.ts), of the   *)
(* diff orchestrator that calls it, of the parser plugins and their        *)
(* registry, of the tables of entities and of changes in the database, of  *)
(* the bridge to git, and of the commands log, blame, history and watch.   *)
(*                                                                         *)
(* Strings that the code inspects character by character (entity content,  *)
(* and the file paths whose extension the orchestrator reads) are          *)
(* sequences of one-character strings.  Strings that the code only         *)
(* concatenates with "::" (ids) are sequences of their parts.  An optional *)
(* field that is undefined is a field the record does not have.  An        *)
(* operator that stands for code with module-level state takes that state  *)
(* as parameters and returns it beside its result.                         *)
(***************************************************************************)
EXTENDS Integers, Sequences, FiniteSets, TLC

VARIABLES
  before,          \* matchEntities: parameter `before`
  after,           \* matchEntities: parameter `after`
  similarityFn,    \* matchEntities: parameter `similarityFn` (or Undefined)
  pc,              \* the position of the call inside matchEntities
  changes,         \* matchEntities: const changes
  sides,           \* for changes[i], the list positions of the entities it was built from
  matchedBefore,   \* matchEntities: const matchedBefore (a Set of ids)
  matchedAfter,    \* matchEntities: const matchedAfter (a Set of ids)
  unmatchedBefore, \* matchEntities: const unmatchedBefore, as positions in `before`
  unmatchedAfter,  \* matchEntities: const unmatchedAfter, as positions in `after`
  fileChanges,     \* computeSemanticDiff: parameter `fileChanges`
  invocation,      \* computeSemanticDiff: parameters `registry`, `commitSha`, `author`
  installed,       \* the packages that require() finds
  Parser,          \* plugins/code/index.ts: let Parser
  grammarCache,    \* plugins/code/grammar-loader.ts: const grammarCache
  results,         \* the DiffResults of the runs so far
  origins,         \* for the changes of the last run, where each came from
  outputs,         \* the JSON texts of the runs so far
  extraction,      \* one call of a plugin's extractEntities, and what it returned
  registration,    \* a ParserRegistry, the register calls it took, its last lookup
  database,        \* SemDatabase: the rows of its tables, and the last call
  repository,      \* the Git repository the command runs in
  command          \* the command of the CLI that runs: its position and its locals

matcherVars == <<before, after, similarityFn, pc, changes, sides,
                 matchedBefore, matchedAfter, unmatchedBefore, unmatchedAfter>>

diffVars == <<fileChanges, invocation, installed, Parser, grammarCache,
              results, origins, outputs>>

storeVars == <<registration, database>>

commandVars == <<repository, command>>

vars == <<matcherVars, diffVars, extraction, storeVars, commandVars>>

-----------------------------------------------------------------------------
(* Bounds of the model *)

\* The longest before list and the longest after list that are explored.
MaxEntities == 2

\* The longest FileChange list that is explored.
MaxFiles == 2

\* The number of times the diff is run in one process.
MaxRuns == 2

\* The number of register calls a registry takes.
MaxRegistered == 3

\* The number of calls of insertEntities and clearSnapshot on a database.
MaxWrites == 2

\* The number of commits of a repository.
MaxCommits == 3

\* The number of lines of the longest file the fallback plugin is given.
MaxLines == 41

-----------------------------------------------------------------------------
(* Values *)

\* The value of a parameter that was not passed.
Undefined == "undefined"

\* What /\s/ matches, among the characters the contents below use.
Whitespace == {" ", "\n", "\t"}

\* "a b c d e"
ContentABCDE == <<"a", " ", "b", " ", "c", " ", "d", " ", "e">>
\* "a b c d"
ContentABCD == <<"a", " ", "b", " ", "c", " ", "d">>
\* "a b\nc  d e f"
ContentABCDEF == <<"a", " ", "b", "\n", "c", " ", " ", "d", " ", "e", " ", "f">>

\* The declarations a file may hold: entityType, name, and the texts the
\* declaration may have.
Declarations ==
  { [ entityType |-> "function", name |-> "f",
      contents |-> {ContentABCDE, ContentABCD, ContentABCDEF} ],
    [ entityType |-> "function", name |-> "g",
      contents |-> {ContentABCDE, ContentABCD} ],
    [ entityType |-> "class", name |-> "f",
      contents |-> {ContentABCDEF} ] }

\* The path of the file after the change, and the paths it may have had before.
NewPath == "new.ts"
OldPaths == {"old.ts", "new.ts"}

-----------------------------------------------------------------------------
(* model/entity.ts and utils/hash.ts *)

\* `${filePath}::${parentId}::${name}` or `${filePath}::${entityType}::${name}`;
\* an id is the sequence of its "::"-separated parts, and no parent is <<>>.
buildEntityId(filePath, entityType, name, parentId) ==
  IF parentId # <<>>
    THEN <<filePath>> \o parentId \o <<name>>
    ELSE <<filePath, entityType, name>>

\* SHA-256 of the content as it is, taken to be free of collisions: the digest
\* of a string is the string tagged with the algorithm.
contentHash(content) == <<"sha256", content>>

\* The entity a plugin builds for a top-level declaration.
MakeEntity(filePath, entityType, name, content) ==
  [ id          |-> buildEntityId(filePath, entityType, name, <<>>),
    filePath    |-> filePath,
    entityType  |-> entityType,
    name        |-> name,
    content     |-> content,
    contentHash |-> contentHash(content) ]

EntitiesAt(filePath) ==
  UNION { { MakeEntity(filePath, d.entityType, d.name, c) : c \in d.contents } :
          d \in Declarations }

\* All lists of at most n elements of S.
SeqsUpTo(S, n) == UNION { [1..k -> S] : k \in 0..n }

-----------------------------------------------------------------------------
(* model/identity.ts: defaultSimilarity *)

Range(s) == { s[i] : i \in DOMAIN s }

\* content.split(/\s+/): the pieces between the maximal runs of whitespace, the
\* empty piece before a leading run and after a trailing run included.
RECURSIVE SplitFrom(_, _, _, _)
SplitFrom(s, i, piece, pieces) ==
  IF i > Len(s) THEN Append(pieces, piece)
  ELSE IF s[i] \in Whitespace
    THEN IF i > 1 /\ s[i - 1] \in Whitespace
           THEN SplitFrom(s, i + 1, piece, pieces)
           ELSE SplitFrom(s, i + 1, <<>>, Append(pieces, piece))
    ELSE SplitFrom(s, i + 1, Append(piece, s[i]), pieces)

SplitWhitespace(s) == SplitFrom(s, 1, <<>>, <<>>)

\* A score is the fraction <<numerator, denominator>>, denominator > 0, so that
\* the comparisons of the code are exact.
ScoreGreater(x, y) == x[1] * y[2] > y[1] * x[2]
ScoreAtLeast(x, y) == x[1] * y[2] >= y[1] * x[2]

\* Jaccard index of the two token sets.
defaultSimilarity(a, b) ==
  LET tokensA      == Range(SplitWhitespace(a.content))
      tokensB      == Range(SplitWhitespace(b.content))
      intersection == { t \in tokensA : t \in tokensB }
      union        == tokensA \cup tokensB
  IN  IF Cardinality(union) = 0 THEN <<0, 1>>
      ELSE <<Cardinality(intersection), Cardinality(union)>>

\* similarityFn(a, b) for the functions a caller passes.
ApplySimilarity(fn, a, b) == defaultSimilarity(a, b)

\* const THRESHOLD = 0.8
THRESHOLD == <<4, 5>>

-----------------------------------------------------------------------------
(* model/identity.ts: matchEntities *)

\* rec with the optional field set, or without it when the value is undefined.
WithOptional(rec, fieldName, present, value) ==
  IF present THEN (fieldName :> value) @@ rec ELSE rec

WithCommit(rec, commitSha, author) ==
  WithOptional(WithOptional(rec, "commitSha", commitSha # Undefined, commitSha),
               "author", author # Undefined, author)

Positions(list) == [i \in 1..Len(list) |-> i]

\* new Map(list.map(e => [e.id, e])): the keys in the order of their first
\* occurrence, each with the last entity that has the id.
MapKeys(list) ==
  LET firsts == SelectSeq(Positions(list),
                          LAMBDA i : \A j \in 1..(i - 1) : list[j].id # list[i].id)
  IN  [k \in 1..Len(firsts) |-> list[firsts[k]].id]

MapHas(list, id) == \E i \in 1..Len(list) : list[i].id = id

MapGet(list, id) ==
  CHOOSE i \in 1..Len(list) :
    list[i].id = id /\ \A j \in (i + 1)..Len(list) : list[j].id # id

\* The state of one call: the locals of matchEntities that outlive a phase.
EmptyMatch ==
  [ changes |-> <<>>, sides |-> <<>>, matchedBefore |-> {}, matchedAfter |-> {} ]

\* A slip: the content of the after entity on both sides.
ModifiedChangeOfAfterOnly(beforeEntity, afterEntity, commitSha, author) ==
  WithCommit(
    [ id            |-> <<"change">> \o afterEntity.id,
      entityId      |-> afterEntity.id,
      changeType    |-> "modified",
      entityType    |-> afterEntity.entityType,
      entityName    |-> afterEntity.name,
      filePath      |-> afterEntity.filePath,
      beforeContent |-> afterEntity.content,
      afterContent  |-> afterEntity.content ], commitSha, author)

ModifiedChange(beforeEntity, afterEntity, commitSha, author) ==
  WithCommit(
    [ id            |-> <<"change">> \o afterEntity.id,
      entityId      |-> afterEntity.id,
      changeType    |-> "modified",
      entityType    |-> afterEntity.entityType,
      entityName    |-> afterEntity.name,
      filePath      |-> afterEntity.filePath,
      beforeContent |-> beforeEntity.content,
      afterContent  |-> afterEntity.content ], commitSha, author)

\* A slip: oldFilePath set whether or not the paths differ.
PairedChangeAlwaysWithOldPath(beforeEntity, afterEntity, commitSha, author) ==
  WithCommit(
    [ id            |-> <<"change">> \o afterEntity.id,
      entityId      |-> afterEntity.id,
      changeType    |-> IF beforeEntity.filePath # afterEntity.filePath
                          THEN "moved" ELSE "renamed",
      entityType    |-> afterEntity.entityType,
      entityName    |-> afterEntity.name,
      filePath      |-> afterEntity.filePath,
      oldFilePath   |-> beforeEntity.filePath,
      beforeContent |-> beforeEntity.content,
      afterContent  |-> afterEntity.content ], commitSha, author)

\* The change pushed for a pair found by phase 2 or by phase 3.
PairedChange(beforeEntity, afterEntity, commitSha, author) ==
  WithCommit(
    WithOptional(
      [ id            |-> <<"change">> \o afterEntity.id,
        entityId      |-> afterEntity.id,
        changeType    |-> IF beforeEntity.filePath # afterEntity.filePath
                            THEN "moved" ELSE "renamed",
        entityType    |-> afterEntity.entityType,
        entityName    |-> afterEntity.name,
        filePath      |-> afterEntity.filePath,
        beforeContent |-> beforeEntity.content,
        afterContent  |-> afterEntity.content ],
      "oldFilePath", beforeEntity.filePath # afterEntity.filePath,
      beforeEntity.filePath), commitSha, author)

DeletedChange(entity, commitSha, author) ==
  WithCommit(
    [ id            |-> <<"change", "deleted">> \o entity.id,
      entityId      |-> entity.id,
      changeType    |-> "deleted",
      entityType    |-> entity.entityType,
      entityName    |-> entity.name,
      filePath      |-> entity.filePath,
      beforeContent |-> entity.content ], commitSha, author)

AddedChange(entity, commitSha, author) ==
  WithCommit(
    [ id           |-> <<"change", "added">> \o entity.id,
      entityId     |-> entity.id,
      changeType   |-> "added",
      entityType   |-> entity.entityType,
      entityName   |-> entity.name,
      filePath     |-> entity.filePath,
      afterContent |-> entity.content ], commitSha, author)

\* changes.push(c), with the positions of the entities c was built from.
Push(m, change, b, a, phase) ==
  [ m EXCEPT !.changes = Append(@, change),
             !.sides   = Append(@, [before |-> b, after |-> a, phase |-> phase]) ]

(* Phase 1: exact id match *)
\* A slip: the ids marked as matched only when a change is pushed.
Phase1BodyMarkingOnlyModified(b, a, m, id, commitSha, author) ==
  IF MapHas(b, id) /\ b[MapGet(b, id)].contentHash # a[MapGet(a, id)].contentHash
    THEN Push([ m EXCEPT !.matchedBefore = @ \cup {id},
                         !.matchedAfter  = @ \cup {id} ],
              ModifiedChange(b[MapGet(b, id)], a[MapGet(a, id)], commitSha, author),
              MapGet(b, id), MapGet(a, id), 1)
    ELSE m

Phase1Body(b, a, m, id, commitSha, author) ==
  IF MapHas(b, id)
    THEN LET bi == MapGet(b, id)
             ai == MapGet(a, id)
             marked == [ m EXCEPT !.matchedBefore = @ \cup {id},
                                  !.matchedAfter  = @ \cup {id} ]
         IN  IF b[bi].contentHash # a[ai].contentHash
               THEN Push(marked, ModifiedChange(b[bi], a[ai], commitSha, author),
                         bi, ai, 1)
               ELSE marked
    ELSE m

RECURSIVE Phase1Loop(_, _, _, _, _, _)
Phase1Loop(b, a, m, keys, commitSha, author) ==
  IF keys = <<>> THEN m
  ELSE Phase1Loop(b, a, Phase1Body(b, a, m, Head(keys), commitSha, author),
                  Tail(keys), commitSha, author)

Phase1(b, a, m, commitSha, author) ==
  Phase1Loop(b, a, m, MapKeys(a), commitSha, author)

\* A slip: the entries of the Map by id filtered, not the list, so that of
\* the entities with one id only the last is kept.
UnmatchedOfMap(list, matched) ==
  SelectSeq(Positions(list),
            LAMBDA i : /\ list[i].id \notin matched
                       /\ \A j \in (i + 1)..Len(list) : list[j].id # list[i].id)

\* list.filter(e => !matched.has(e.id)), as positions.
Unmatched(list, matched) ==
  SelectSeq(Positions(list), LAMBDA i : list[i].id \notin matched)

(* Phase 2: content hash match *)
\* beforeByHash: for every hash of an unmatched before entity, the queue of
\* the positions that have it, in list order.
BeforeByHash(b, unmatchedB) ==
  [ h \in { b[unmatchedB[k]].contentHash : k \in 1..Len(unmatchedB) } |->
      SelectSeq(unmatchedB, LAMBDA i : b[i].contentHash = h) ]

\* The map without the key.
MapDelete(map, key) == [ k \in (DOMAIN map) \ {key} |-> map[k] ]

\* A slip: candidates[0], which leaves the queue as it is.
ShiftWithoutRemoving(queue) == [ entity |-> Head(queue), rest |-> queue ]

\* A slip: candidates.pop(), which takes the last element.
ShiftFromTheEnd(queue) ==
  [ entity |-> queue[Len(queue)], rest |-> SubSeq(queue, 1, Len(queue) - 1) ]

\* candidates.shift(): the first element, and what is left of the queue.
Shift(queue) == [ entity |-> Head(queue), rest |-> Tail(queue) ]

RECURSIVE Phase2Loop(_, _, _, _, _, _, _)
Phase2Loop(b, a, m, byHash, rest, commitSha, author) ==
  IF rest = <<>> THEN m
  ELSE LET ai == Head(rest)
           h  == a[ai].contentHash
       IN  IF h \in DOMAIN byHash /\ Len(byHash[h]) > 0
             THEN LET bi      == Shift(byHash[h]).entity
                      shifted == Shift(byHash[h]).rest
                      byHash2 == IF Len(shifted) = 0
                                   THEN MapDelete(byHash, h)
                                   ELSE [byHash EXCEPT ![h] = shifted]
                      marked  == [ m EXCEPT !.matchedBefore = @ \cup {b[bi].id},
                                            !.matchedAfter  = @ \cup {a[ai].id} ]
                  IN  Phase2Loop(b, a,
                        Push(marked, PairedChange(b[bi], a[ai], commitSha, author),
                             bi, ai, 2),
                        byHash2, Tail(rest), commitSha, author)
             ELSE Phase2Loop(b, a, m, byHash, Tail(rest), commitSha, author)

Phase2(b, a, m, unmatchedB, unmatchedA, commitSha, author) ==
  Phase2Loop(b, a, m, BeforeByHash(b, unmatchedB), unmatchedA, commitSha, author)

(* Phase 3: fuzzy similarity *)
\* A slip: the test of the entityType left out.
NeverSkipsByType(beforeEntity, afterEntity) == FALSE

\* if (beforeEntity.entityType !== afterEntity.entityType) continue
SkipsByType(beforeEntity, afterEntity) ==
  beforeEntity.entityType # afterEntity.entityType

\* The inner loop: best is [match, score], match = 0 for null.
RECURSIVE BestMatch(_, _, _, _, _, _)
BestMatch(b, afterEntity, matched, fn, rest, best) ==
  IF rest = <<>> THEN best
  ELSE LET bi == Head(rest)
       IN  IF b[bi].id \in matched
             THEN BestMatch(b, afterEntity, matched, fn, Tail(rest), best)
           ELSE IF SkipsByType(b[bi], afterEntity)
             THEN BestMatch(b, afterEntity, matched, fn, Tail(rest), best)
           ELSE LET score == ApplySimilarity(fn, b[bi], afterEntity)
                IN  IF ScoreGreater(score, best.score) /\ ScoreAtLeast(score, THRESHOLD)
                      THEN BestMatch(b, afterEntity, matched, fn, Tail(rest),
                                     [match |-> bi, score |-> score])
                      ELSE BestMatch(b, afterEntity, matched, fn, Tail(rest), best)

RECURSIVE Phase3Loop(_, _, _, _, _, _, _, _)
Phase3Loop(b, a, m, fn, stillB, rest, commitSha, author) ==
  IF rest = <<>> THEN m
  ELSE LET ai   == Head(rest)
           best == BestMatch(b, a[ai], m.matchedBefore, fn, stillB,
                             [match |-> 0, score |-> <<0, 1>>])
       IN  IF best.match # 0
             THEN LET bi     == best.match
                      marked == [ m EXCEPT !.matchedBefore = @ \cup {b[bi].id},
                                           !.matchedAfter  = @ \cup {a[ai].id} ]
                  IN  Phase3Loop(b, a,
                        Push(marked, PairedChange(b[bi], a[ai], commitSha, author),
                             bi, ai, 3),
                        fn, stillB, Tail(rest), commitSha, author)
             ELSE Phase3Loop(b, a, m, fn, stillB, Tail(rest), commitSha, author)

\* A slip: phase 3 run on what phase 1 left, not on what phase 2 left.
StillUnmatchedOfPhase1(list, unmatched, matched) == unmatched

\* unmatched.filter(e => !matched.has(e.id)), lines 134-135.
StillUnmatched(list, unmatched, matched) ==
  SelectSeq(unmatched, LAMBDA i : list[i].id \notin matched)

\* A slip: defaultSimilarity taken when no function is passed.
Phase3Defaulting(b, a, m, fn, unmatchedB, unmatchedA, commitSha, author) ==
  LET stillUnmatchedBefore == StillUnmatched(b, unmatchedB, m.matchedBefore)
      stillUnmatchedAfter == StillUnmatched(a, unmatchedA, m.matchedAfter)
  IN  IF Len(stillUnmatchedBefore) > 0 /\ Len(stillUnmatchedAfter) > 0
        THEN Phase3Loop(b, a, m, "defaultSimilarity", stillUnmatchedBefore,
                        stillUnmatchedAfter, commitSha, author)
        ELSE m

Phase3(b, a, m, fn, unmatchedB, unmatchedA, commitSha, author) ==
  LET stillUnmatchedBefore == StillUnmatched(b, unmatchedB, m.matchedBefore)
      stillUnmatchedAfter == StillUnmatched(a, unmatchedA, m.matchedAfter)
  IN  IF fn # Undefined /\ Len(stillUnmatchedBefore) > 0 /\ Len(stillUnmatchedAfter) > 0
        THEN Phase3Loop(b, a, m, fn, stillUnmatchedBefore, stillUnmatchedAfter,
                        commitSha, author)
        ELSE m

(* The terminal phase: what is left is deleted or added *)
RECURSIVE DeletedLoop(_, _, _, _, _)
DeletedLoop(b, m, rest, commitSha, author) ==
  IF rest = <<>> THEN m
  ELSE DeletedLoop(b, Push(m, DeletedChange(b[Head(rest)], commitSha, author),
                           Head(rest), 0, 4),
                   Tail(rest), commitSha, author)

RECURSIVE AddedLoop(_, _, _, _, _)
AddedLoop(a, m, rest, commitSha, author) ==
  IF rest = <<>> THEN m
  ELSE AddedLoop(a, Push(m, AddedChange(a[Head(rest)], commitSha, author),
                         0, Head(rest), 4),
                 Tail(rest), commitSha, author)

\* A slip: the added entities filtered by matchedBefore.
TerminalByMatchedBefore(b, a, m, commitSha, author) ==
  LET deleted == DeletedLoop(b, m, Unmatched(b, m.matchedBefore), commitSha, author)
  IN  AddedLoop(a, deleted, Unmatched(a, deleted.matchedBefore), commitSha, author)

Terminal(b, a, m, commitSha, author) ==
  LET deleted == DeletedLoop(b, m, Unmatched(b, m.matchedBefore), commitSha, author)
  IN  AddedLoop(a, deleted, Unmatched(a, deleted.matchedAfter), commitSha, author)

\* The whole call.  The third parameter, filePath, is read nowhere in the body.
matchEntities(b, a, filePath, fn, commitSha, author) ==
  LET m1 == Phase1(b, a, EmptyMatch, commitSha, author)
      ub == Unmatched(b, m1.matchedBefore)
      ua == Unmatched(a, m1.matchedAfter)
      m2 == Phase2(b, a, m1, ub, ua, commitSha, author)
      m3 == Phase3(b, a, m2, fn, ub, ua, commitSha, author)
  IN  Terminal(b, a, m3, commitSha, author)

-----------------------------------------------------------------------------
(* utils/path.ts and parser/registry.ts *)

Max(S) == CHOOSE x \in S : \A y \in S : y <= x
Min(S) == CHOOSE x \in S : \A y \in S : x <= y

LastIndexOf(s, c) ==
  LET at == { i \in 1..Len(s) : s[i] = c }
  IN  IF at = {} THEN 0 ELSE Max(at)

\* node:path extname: from the last "." of the last path segment to the end,
\* and nothing when the segment has no "." or only a leading one.
extname(filePath) ==
  LET base == SubSeq(filePath, LastIndexOf(filePath, "/") + 1, Len(filePath))
      dot  == LastIndexOf(base, ".")
  IN  IF dot <= 1 THEN <<>> ELSE SubSeq(base, dot, Len(base))

\* String.prototype.toLowerCase, on the letters the paths below use.
toLowerCase(s) ==
  [ i \in 1..Len(s) |->
      CASE s[i] = "T" -> "t"
        [] s[i] = "S" -> "s"
        [] s[i] = "X" -> "x"
        [] OTHER -> s[i] ]

\* The extension in the letter case of the path.
ExtensionAsWritten(filePath) == extname(filePath)

getExtension(filePath) == toLowerCase(extname(filePath))

\* A Map: the keys in insertion order are not read by the code modelled here,
\* so a Map is the function from its keys to their values.
EmptyMap == [ k \in {} |-> k ]

MapSet(map, key, value) ==
  [ k \in (DOMAIN map) \cup {key} |-> IF k = key THEN value ELSE map[k] ]

EmptyRegistry == [ plugins |-> EmptyMap, extensionMap |-> EmptyMap ]

RECURSIVE RegisterExtensions(_, _, _)
RegisterExtensions(extensionMap, extensions, pluginId) ==
  IF extensions = <<>> THEN extensionMap
  ELSE RegisterExtensions(MapSet(extensionMap, Head(extensions), pluginId),
                          Tail(extensions), pluginId)

register(registry, plugin) ==
  [ plugins      |-> MapSet(registry.plugins, plugin.id, plugin),
    extensionMap |-> RegisterExtensions(registry.extensionMap, plugin.extensions,
                                        plugin.id) ]

\* getPlugin: the plugin of the extension, or else the plugin called fallback,
\* or else undefined.
getPlugin(registry, filePath) ==
  LET ext == getExtension(filePath)
  IN  IF ext \in DOMAIN registry.extensionMap
        THEN [ found |-> TRUE,
               plugin |-> registry.plugins[registry.extensionMap[ext]] ]
      ELSE IF "fallback" \in DOMAIN registry.plugins
        THEN [ found |-> TRUE, plugin |-> registry.plugins["fallback"] ]
      ELSE [ found |-> FALSE ]

-----------------------------------------------------------------------------
(* parser/plugins/code: languages.ts, grammar-loader.ts, index.ts,         *)
(* entity-extractor.ts                                                     *)

ExtTs  == <<".", "t", "s">>
ExtTsx == <<".", "t", "s", "x">>
ExtPy  == <<".", "p", "y">>

\* Two of the language configurations: the one whose package holds two
\* grammars, and one whose package is its grammar.
LANGUAGE_CONFIGS ==
  << [ id |-> "typescript",
       extensions |-> <<ExtTs, ExtTsx>>,
       grammarPackage |-> "tree-sitter-typescript",
       entityNodeTypes |->
         { "function_declaration", "class_declaration", "interface_declaration",
           "type_alias_declaration", "enum_declaration", "export_statement",
           "lexical_declaration", "variable_declaration", "method_definition",
           "public_field_definition", "pair" } ],
     [ id |-> "python",
       extensions |-> <<ExtPy>>,
       grammarPackage |-> "tree-sitter-python",
       entityNodeTypes |->
         { "function_definition", "class_definition", "decorated_definition" } ] >>

getLanguageConfig(extension) ==
  LET having == SelectSeq(LANGUAGE_CONFIGS,
                          LAMBDA c : extension \in Range(c.extensions))
  IN  IF having = <<>> THEN [ found |-> FALSE ]
      ELSE [ found |-> TRUE, config |-> Head(having) ]

RECURSIVE FlatMapExtensions(_)
FlatMapExtensions(configs) ==
  IF configs = <<>> THEN <<>>
  ELSE Head(configs).extensions \o FlatMapExtensions(Tail(configs))

getAllCodeExtensions == FlatMapExtensions(LANGUAGE_CONFIGS)

\* What require() of a grammar package gives.
TypescriptPackage == [ typescript |-> "typescript grammar", tsx |-> "tsx grammar" ]
PythonPackage == "python grammar"

CacheKey(config, extension) ==
  IF config.grammarPackage = "tree-sitter-typescript"
    THEN (IF extension = ExtTsx THEN "tsx" ELSE "typescript")
    ELSE config.id

\* A slip: the loaded grammar is stored under the id of its language alone.
CachedUnderConfigId(cache, config, cacheKey, grammar) ==
  MapSet(cache, config.id, grammar)

\* The cache after a load: both grammars of the typescript package, and the
\* loaded grammar under its key.
Cached(cache, config, cacheKey, grammar) ==
  LET both == IF config.grammarPackage = "tree-sitter-typescript"
                THEN MapSet(MapSet(cache, "typescript", TypescriptPackage.typescript),
                            "tsx", TypescriptPackage.tsx)
                ELSE cache
  IN  MapSet(both, cacheKey, grammar)

\* loadGrammar: the grammar and the cache it leaves, or threw when the package
\* is not installed.
loadGrammar(config, extension, cache, packages) ==
  LET cacheKey == CacheKey(config, extension)
  IN  IF cacheKey \in DOMAIN cache
        THEN [ threw |-> FALSE, grammar |-> cache[cacheKey], grammarCache |-> cache ]
      ELSE IF config.grammarPackage \notin packages
        THEN [ threw |-> TRUE, grammarCache |-> cache ]
      ELSE LET grammar ==
                 IF config.grammarPackage = "tree-sitter-typescript"
                   THEN (IF extension = ExtTsx THEN TypescriptPackage.tsx
                                               ELSE TypescriptPackage.typescript)
                   ELSE PythonPackage
           IN  [ threw |-> FALSE, grammar |-> grammar,
                 grammarCache |-> Cached(cache, config, cacheKey, grammar) ]

\* getParser: the module variable Parser after the call, which is also what
\* the call returns.
getParser(parser, packages) ==
  IF parser = "null"
    THEN (IF "tree-sitter" \in packages THEN "tree-sitter" ELSE "null")
    ELSE parser

\* "export class f { g() { a b c d } }", on lines 1 to 3
SourceExportedClass ==
  <<"e", "x", "p", "o", "r", "t", " ", "c", "l", "a", "s", "s", " ", "f", " ", "{",
    "\n", "g", "(", ")", " ", "{", " ", "a", " ", "b", " ", "c", " ", "d", " ", "}",
    "\n", "}">>
\* "class f { g() { a b c d } }", its declaration
TextClass == SubSeq(SourceExportedClass, 8, Len(SourceExportedClass))
\* "g() { a b c d }", its method
TextMethod == SubSeq(SourceExportedClass, 18, 32)

\* A tree-sitter node: its type, text and rows, its named children, and the
\* fields `name` (the text of the name node) and `declaration` it has.
MethodNode ==
  [ type |-> "method_definition", text |-> TextMethod, name |-> "g",
    startRow |-> 1, endRow |-> 1, namedChildren |-> <<>> ]

ClassNode ==
  [ type |-> "class_declaration", text |-> TextClass, name |-> "f",
    startRow |-> 0, endRow |-> 2,
    namedChildren |->
      << [ type |-> "class_body", text |-> SubSeq(SourceExportedClass, 16, 34),
           startRow |-> 0, endRow |-> 2, namedChildren |-> <<MethodNode>> ] >> ]

ExportNode ==
  [ type |-> "export_statement", text |-> SourceExportedClass,
    declaration |-> ClassNode,
    startRow |-> 0, endRow |-> 2, namedChildren |-> <<ClassNode>> ]

FunctionNode(type, text) ==
  [ type |-> type, text |-> text, name |-> "f",
    startRow |-> 0, endRow |-> 0, namedChildren |-> <<>> ]

Program(text, children) ==
  [ type |-> "program", text |-> text, startRow |-> 0,
    endRow |-> Cardinality({ i \in 1..Len(text) : text[i] = "\n" }),
    namedChildren |-> children ]

\* "a  b c d" and "a b /*x*/ c d": the text "a b c d" with more whitespace,
\* and with a comment.
ContentABCDWide == <<"a", " ", " ", "b", " ", "c", " ", "d">>
ContentABCDComment ==
  <<"a", " ", "b", " ", "/", "*", "x", "*", "/", " ", "c", " ", "d">>

\* The texts of the function f.
FunctionTexts == {ContentABCD, ContentABCDWide, ContentABCDComment}

\* "a b c d\na b c d e": the function f declared on line 1 and again on line 2.
SourceTwiceF == ContentABCD \o <<"\n">> \o ContentABCDE

\* parser.parse(content) under a grammar, for the contents of the model.  The
\* text "a b c d", rewritten or not, stands for a function f that every
\* grammar reads alike; the exported class stands for a source that the
\* typescript grammar reads and the other grammars do not.
Parse(grammar, content) ==
  IF content = SourceTwiceF
    THEN Program(content,
           << FunctionNode(IF grammar = PythonPackage THEN "function_definition"
                                                      ELSE "function_declaration",
                           ContentABCD),
              [ FunctionNode(IF grammar = PythonPackage THEN "function_definition"
                                                        ELSE "function_declaration",
                             ContentABCDE) EXCEPT !.startRow = 1, !.endRow = 1 ] >>)
  ELSE IF content \in FunctionTexts
    THEN Program(content,
           << FunctionNode(IF grammar = PythonPackage THEN "function_definition"
                                                      ELSE "function_declaration",
                           content) >>)
  ELSE IF content = SourceExportedClass /\ grammar = TypescriptPackage.typescript
    THEN Program(content, <<ExportNode>>)
  ELSE Program(content,
         << [ type |-> "ERROR", text |-> content, startRow |-> 0,
              endRow |-> 0, namedChildren |-> <<>> ] >>)

\* extractName, for nodes that have a name field or no name at all.
extractName(node) ==
  IF "name" \in DOMAIN node THEN [ found |-> TRUE, text |-> node.name ]
  ELSE [ found |-> FALSE ]

\* mapNodeType, for the node types of the trees above.
mapNodeType(node) ==
  CASE node.type \in {"function_declaration", "function_definition"} -> "function"
    [] node.type = "method_definition" -> "method"
    [] node.type \in {"class_declaration", "class_definition"} -> "class"
    [] node.type = "export_statement" -> "export"
    [] OTHER -> node.type

isFunctionContainer(node) ==
  node.type \in { "function_declaration", "function_definition", "method_definition",
                  "method_declaration", "arrow_function", "function",
                  "function_expression", "generator_function",
                  "generator_function_declaration" }

\* visitNode: the entities list after the visit of the node and of its named
\* children.  No parent is <<>>.
RECURSIVE visitNode(_, _, _, _, _, _)
RECURSIVE VisitChildren(_, _, _, _, _, _)
visitNode(node, filePath, config, entities, parentId, context) ==
  IF node.type = "export_statement" /\ "declaration" \in DOMAIN node
    THEN visitNode(node.declaration, filePath, config, entities, parentId, context)
  ELSE
    LET name == extractName(node)
        entityType == mapNodeType(node)
        shouldSkip == context.insideFunction /\ entityType = "variable"
        pushes == /\ node.type \in config.entityNodeTypes
                  /\ name.found
                  /\ ~shouldSkip
        entity ==
          WithOptional(
            [ id          |-> buildEntityId(filePath, entityType, name.text, parentId),
              filePath    |-> filePath,
              entityType  |-> entityType,
              name        |-> name.text,
              content     |-> node.text,
              contentHash |-> contentHash(node.text),
              startLine   |-> node.startRow + 1,
              endLine     |-> node.endRow + 1 ],
            "parentId", parentId # <<>>, parentId)
        nextContext ==
          [ insideFunction |-> context.insideFunction \/ isFunctionContainer(node) ]
    IN  VisitChildren(node.namedChildren, filePath, config,
                      IF pushes THEN Append(entities, entity) ELSE entities,
                      IF pushes THEN entity.id ELSE parentId,
                      nextContext)

VisitChildren(children, filePath, config, entities, parentId, context) ==
  IF children = <<>> THEN entities
  ELSE VisitChildren(Tail(children), filePath, config,
                     visitNode(Head(children), filePath, config, entities,
                               parentId, context),
                     parentId, context)

extractEntities(tree, filePath, config, sourceCode) ==
  visitNode(tree, filePath, config, <<>>, <<>>, [ insideFunction |-> FALSE ])

\* What a call of a plugin's extractEntities leaves: whether it threw, the
\* entities it returned, and the module variables of the code plugin.
Extracted(entities, parser, cache) ==
  [ threw |-> FALSE, entities |-> entities, Parser |-> parser, grammarCache |-> cache ]

\* CodeParserPlugin.extractEntities from the call of loadGrammar on, lines
\* 120-131.
ParsedWith(loaded, content, filePath, config, ParserClass) ==
  IF loaded.threw
    THEN Extracted(<<>>, ParserClass, loaded.grammarCache)
    ELSE Extracted(extractEntities(Parse(loaded.grammar, content), filePath,
                                   config, content),
                   ParserClass, loaded.grammarCache)

\* CodeParserPlugin.extractEntities from the call of getParser on.
CodeExtractEntitiesWith(ParserClass, ext, found, content, filePath, cache, packages) ==
  IF ParserClass = "null" \/ ~found.found
    THEN Extracted(<<>>, ParserClass, cache)
    ELSE ParsedWith(loadGrammar(found.config, ext, cache, packages),
                    content, filePath, found.config, ParserClass)

CodeExtractEntities(content, filePath, parser, cache, packages) ==
  CodeExtractEntitiesWith(getParser(parser, packages), getExtension(filePath),
                          getLanguageConfig(getExtension(filePath)),
                          content, filePath, cache, packages)

CodeParserPlugin ==
  [ id |-> "code", extensions |-> getAllCodeExtensions,
    computeSimilarity |-> "defaultSimilarity" ]

-----------------------------------------------------------------------------
(* parser/plugins/fallback *)

CHUNK_SIZE == 20

\* content.split('\n')
RECURSIVE SplitLinesFrom(_, _, _, _)
SplitLinesFrom(s, i, line, lines) ==
  IF i > Len(s) THEN Append(lines, line)
  ELSE IF s[i] = "\n" THEN SplitLinesFrom(s, i + 1, <<>>, Append(lines, line))
  ELSE SplitLinesFrom(s, i + 1, Append(line, s[i]), lines)

SplitLines(s) == SplitLinesFrom(s, 1, <<>>, <<>>)

\* chunk.join('\n')
RECURSIVE JoinLines(_)
JoinLines(lines) ==
  IF lines = <<>> THEN <<>>
  ELSE IF Len(lines) = 1 THEN lines[1]
  ELSE lines[1] \o <<"\n">> \o JoinLines(Tail(lines))

\* The loop of FallbackParserPlugin.extractEntities from line index i on; the
\* name `lines ${startLine}-${endLine}` is the sequence of its pieces.
RECURSIVE ChunkLoop(_, _, _, _)
ChunkLoop(lines, i, filePath, entities) ==
  IF i >= Len(lines) THEN entities
  ELSE
    LET endLine == IF i + CHUNK_SIZE < Len(lines) THEN i + CHUNK_SIZE ELSE Len(lines)
        chunkContent == JoinLines(SubSeq(lines, i + 1, endLine))
        startLine == i + 1
        name == <<"lines ", startLine, "-", endLine>>
    IN  ChunkLoop(lines, i + CHUNK_SIZE, filePath,
          Append(entities,
            [ id          |-> buildEntityId(filePath, "chunk", name, <<>>),
              filePath    |-> filePath,
              entityType  |-> "chunk",
              name        |-> name,
              content     |-> chunkContent,
              contentHash |-> contentHash(chunkContent),
              startLine   |-> startLine,
              endLine     |-> endLine ]))

FallbackExtractEntities(content, filePath) ==
  ChunkLoop(SplitLines(content), 0, filePath, <<>>)

FallbackParserPlugin == [ id |-> "fallback", extensions |-> <<>> ]

-----------------------------------------------------------------------------
(* parser/plugins/csv *)

\* String.prototype.trim
RECURSIVE TrimStart(_)
TrimStart(s) ==
  IF s # <<>> /\ Head(s) \in Whitespace THEN TrimStart(Tail(s)) ELSE s

RECURSIVE TrimEnd(_)
TrimEnd(s) ==
  IF s # <<>> /\ s[Len(s)] \in Whitespace
    THEN TrimEnd(SubSeq(s, 1, Len(s) - 1)) ELSE s

Trim(s) == TrimEnd(TrimStart(s))

EndsWith(s, suffix) ==
  Len(s) >= Len(suffix) /\ SubSeq(s, Len(s) - Len(suffix) + 1, Len(s)) = suffix

\* The decimal digits of a natural number, as `${n}` writes them.
RECURSIVE Decimal(_)
Decimal(n) ==
  LET digits == <<"0", "1", "2", "3", "4", "5", "6", "7", "8", "9">>
  IN  IF n < 10 THEN <<digits[n + 1]>>
      ELSE Decimal(n \div 10) \o <<digits[(n % 10) + 1]>>

\* parseCsvLine from the character at index i on (i counts from 1).
RECURSIVE ParseCsvFrom(_, _, _, _, _, _)
ParseCsvFrom(line, separator, i, current, inQuotes, cells) ==
  IF i > Len(line) THEN Append(cells, Trim(current))
  ELSE IF inQuotes
    THEN IF line[i] = "\"" /\ i < Len(line) /\ line[i + 1] = "\""
           THEN ParseCsvFrom(line, separator, i + 2, Append(current, "\""), TRUE, cells)
         ELSE IF line[i] = "\""
           THEN ParseCsvFrom(line, separator, i + 1, current, FALSE, cells)
         ELSE ParseCsvFrom(line, separator, i + 1, Append(current, line[i]), TRUE,
                           cells)
  ELSE IF line[i] = "\""
    THEN ParseCsvFrom(line, separator, i + 1, current, TRUE, cells)
  ELSE IF line[i] = separator
    THEN ParseCsvFrom(line, separator, i + 1, <<>>, FALSE,
                      Append(cells, Trim(current)))
  ELSE ParseCsvFrom(line, separator, i + 1, Append(current, line[i]), FALSE, cells)

parseCsvLine(line, separator) == ParseCsvFrom(line, separator, 1, <<>>, FALSE, <<>>)

\* Object.fromEntries(headers.map((h, idx) => [h, cells[idx] ?? ''])): of the
\* columns with one header the last gives the value.
CsvMetadata(headers, cells) ==
  [ h \in Range(headers) |->
      IF Max({ k \in 1..Len(headers) : headers[k] = h }) <= Len(cells)
        THEN cells[Max({ k \in 1..Len(headers) : headers[k] = h })]
        ELSE <<>> ]

\* `row[${rowId}]`, with rowId the first cell or else `row_${i}`.
CsvRowName(cells, i) ==
  <<"r", "o", "w", "[">>
    \o (IF cells[1] # <<>> THEN cells[1] ELSE <<"r", "o", "w", "_">> \o Decimal(i))
    \o <<"]">>

\* The entity of the row on lines[i], lines 23-40.
CsvRow(rowContent, i, cells, headers, filePath) ==
  [ id          |-> buildEntityId(filePath, "row", CsvRowName(cells, i), <<>>),
    filePath    |-> filePath,
    entityType  |-> "row",
    name        |-> CsvRowName(cells, i),
    content     |-> rowContent,
    contentHash |-> contentHash(rowContent),
    startLine   |-> i + 1,
    endLine     |-> i + 1,
    metadata    |-> CsvMetadata(headers, cells) ]

\* The loop over the rows from lines[i] on (i counts from 0, as in the code).
RECURSIVE CsvRowLoop(_, _, _, _, _, _)
CsvRowLoop(lines, i, separator, headers, filePath, entities) ==
  IF i >= Len(lines) THEN entities
  ELSE CsvRowLoop(lines, i + 1, separator, headers, filePath,
                  Append(entities,
                         CsvRow(lines[i + 1], i, parseCsvLine(lines[i + 1], separator),
                                headers, filePath)))

\* CsvParserPlugin.extractEntities from the choice of the separator on.
CsvExtractFrom(lines, separator, filePath) ==
  IF Len(lines) = 0 THEN <<>>
  ELSE CsvRowLoop(lines, 1, separator, parseCsvLine(lines[1], separator), filePath,
                  <<>>)

CsvExtractEntities(content, filePath) ==
  CsvExtractFrom(SelectSeq(SplitLines(content), LAMBDA l : Trim(l) # <<>>),
                 IF EndsWith(filePath, <<".", "t", "s", "v">>) THEN "\t" ELSE ",",
                 filePath)

CsvParserPlugin ==
  [ id |-> "csv",
    extensions |-> << <<".", "c", "s", "v">>, <<".", "t", "s", "v">> >> ]

-----------------------------------------------------------------------------
(* parser/plugins/json *)

\* The values of JSON.parse: an object is the list of its entries in the order
\* of Object.entries, an array the list of its items, and a number, a string
\* or null the text JSON.stringify writes for it.
JsonObject(entries) == [ kind |-> "object", entries |-> entries ]
JsonArray(items) == [ kind |-> "array", items |-> items ]
JsonEntry(key, value) == [ key |-> key, value |-> value ]
JsonNumber(text) == [ kind |-> "number", text |-> text ]
JsonNull == [ kind |-> "null", text |-> <<"n", "u", "l", "l">> ]

\* typeof value === 'object' && value !== null
IsJsonObject(value) == value.kind \in {"object", "array"}

Spaces(n) == [ k \in 1..n |-> " " ]

\* JSON.stringify(value, null, 2), at the indentation of n spaces.
RECURSIVE Stringify(_, _), StringifyMembers(_, _, _)
Stringify(value, n) ==
  IF value.kind = "object"
    THEN IF value.entries = <<>> THEN <<"{", "}">>
         ELSE <<"{", "\n">> \o StringifyMembers(value.entries, n + 2, TRUE)
                \o <<"\n">> \o Spaces(n) \o <<"}">>
  ELSE IF value.kind = "array"
    THEN IF value.items = <<>> THEN <<"[", "]">>
         ELSE <<"[", "\n">> \o StringifyMembers(value.items, n + 2, FALSE)
                \o <<"\n">> \o Spaces(n) \o <<"]">>
  ELSE value.text

\* The members of an object or of an array, one on a line.
StringifyMembers(members, n, keyed) ==
  Spaces(n)
    \o (IF keyed
          THEN <<"\"">> \o Head(members).key \o <<"\"", ":", " ">>
                 \o Stringify(Head(members).value, n)
          ELSE Stringify(Head(members), n))
    \o (IF Len(members) = 1 THEN <<>>
        ELSE <<",", "\n">> \o StringifyMembers(Tail(members), n, keyed))

\* key.replace(/~/g, '~0').replace(/\//g, '~1')
RECURSIVE EscapeKey(_)
EscapeKey(key) ==
  IF key = <<>> THEN <<>>
  ELSE (IF Head(key) = "~" THEN <<"~", "0">>
        ELSE IF Head(key) = "/" THEN <<"~", "1">>
        ELSE <<Head(key)>>) \o EscapeKey(Tail(key))

\* The entity lines 36-46 and 63-73 push.  parentId is `pointer || undefined`:
\* the pointer itself, a string of one part, and absent for the empty pointer.
JsonEntity(filePath, entityType, itemPointer, name, pointer, itemContent) ==
  WithOptional([ id          |-> buildEntityId(filePath, entityType, itemPointer, <<>>),
                 filePath    |-> filePath,
                 entityType  |-> entityType,
                 name        |-> name,
                 content     |-> itemContent,
                 contentHash |-> contentHash(itemContent),
                 startLine   |-> 0,
                 endLine     |-> 0 ],
               "parentId", pointer # <<>>, <<pointer>>)

\* JsonParserPlugin.walk, with the two loops from the member at index i on
\* (i counts from 0).
RECURSIVE walk(_, _, _, _, _), WalkItems(_, _, _, _, _, _),
          WalkEntries(_, _, _, _, _, _)
walk(value, pointer, filePath, entities, depth) ==
  IF value.kind = "array"
    THEN WalkItems(value.items, 0, pointer, filePath, entities, depth)
  ELSE IF value.kind = "object"
    THEN WalkEntries(value.entries, 0, pointer, filePath, entities, depth)
  ELSE entities

WalkItems(items, i, pointer, filePath, entities, depth) ==
  IF i >= Len(items) THEN entities
  ELSE WalkItems(items, i + 1, pointer, filePath,
         IF ~IsJsonObject(items[i + 1]) THEN entities
         ELSE IF depth < 3
           THEN walk(items[i + 1], pointer \o <<"/">> \o Decimal(i), filePath,
                     Append(entities,
                            JsonEntity(filePath, "element",
                                       pointer \o <<"/">> \o Decimal(i),
                                       <<"[">> \o Decimal(i) \o <<"]">>, pointer,
                                       Stringify(items[i + 1], 0))),
                     depth + 1)
         ELSE Append(entities,
                     JsonEntity(filePath, "element", pointer \o <<"/">> \o Decimal(i),
                                <<"[">> \o Decimal(i) \o <<"]">>, pointer,
                                Stringify(items[i + 1], 0))),
         depth)

WalkEntries(entries, i, pointer, filePath, entities, depth) ==
  IF i >= Len(entries) THEN entities
  ELSE WalkEntries(entries, i + 1, pointer, filePath,
         IF IsJsonObject(entries[i + 1].value) /\ depth < 3
           THEN walk(entries[i + 1].value,
                     pointer \o <<"/">> \o EscapeKey(entries[i + 1].key), filePath,
                     Append(entities,
                            JsonEntity(filePath, "object",
                                       pointer \o <<"/">> \o EscapeKey(entries[i + 1].key),
                                       entries[i + 1].key, pointer,
                                       Stringify(entries[i + 1].value, 0))),
                     depth + 1)
         ELSE Append(entities,
                     JsonEntity(filePath,
                                IF IsJsonObject(entries[i + 1].value) THEN "object"
                                                                      ELSE "property",
                                pointer \o <<"/">> \o EscapeKey(entries[i + 1].key),
                                entries[i + 1].key, pointer,
                                Stringify(entries[i + 1].value, 0))),
         depth)

\* The sources of the model: '{"a":1}', '{"a":2}', '{"a":{"b":1}}',
\* '[{"a":1},null,2]', five objects one inside the other, and the text
\* '{"a":' that is cut short.
JsonFlat ==
  <<"{", "\"", "a", "\"", ":", "1", "}">>
JsonFlatTwo ==
  <<"{", "\"", "a", "\"", ":", "2", "}">>
JsonNested ==
  <<"{", "\"", "a", "\"", ":", "{", "\"", "b", "\"", ":", "1", "}", "}">>
JsonElements ==
  <<"[", "{", "\"", "a", "\"", ":", "1", "}", ",", "n", "u", "l", "l", ",",
    "2", "]">>
JsonDeep ==
  <<"{", "\"", "a", "\"", ":", "{", "\"", "a", "\"", ":", "{", "\"", "a", "\"",
    ":", "{", "\"", "a", "\"", ":", "{", "\"", "a", "\"", ":", "{", "}", "}",
    "}", "}", "}", "}">>
JsonCut ==
  <<"{", "\"", "a", "\"", ":">>
JsonPair ==
  <<"{", "\"", "a", "\"", ":", "1", ",", "\"", "b", "\"", ":", "1", "}">>
JsonPairTwo ==
  <<"{", "\"", "a", "\"", ":", "2", ",", "\"", "b", "\"", ":", "1", "}">>

\* An object nested n deep under the key "a", the innermost one empty.
RECURSIVE NestedUnderA(_)
NestedUnderA(n) ==
  IF n = 0 THEN JsonObject(<<>>)
  ELSE JsonObject(<< JsonEntry(<<"a">>, NestedUnderA(n - 1)) >>)

\* JSON.parse(content) for the sources of the model; it throws a SyntaxError
\* on any other text.
JsonParse(content) ==
  CASE content = JsonFlat ->
         [ threw |-> FALSE,
           value |-> JsonObject(<< JsonEntry(<<"a">>, JsonNumber(<<"1">>)) >>) ]
    [] content = JsonFlatTwo ->
         [ threw |-> FALSE,
           value |-> JsonObject(<< JsonEntry(<<"a">>, JsonNumber(<<"2">>)) >>) ]
    [] content = JsonNested ->
         [ threw |-> FALSE,
           value |-> JsonObject(<< JsonEntry(<<"a">>,
                        JsonObject(<< JsonEntry(<<"b">>, JsonNumber(<<"1">>)) >>)) >>) ]
    [] content = JsonElements ->
         [ threw |-> FALSE,
           value |-> JsonArray(<< JsonObject(<< JsonEntry(<<"a">>,
                                                           JsonNumber(<<"1">>)) >>),
                                  JsonNull, JsonNumber(<<"2">>) >>) ]
    [] content = JsonDeep -> [ threw |-> FALSE, value |-> NestedUnderA(5) ]
    [] content = JsonPair ->
         [ threw |-> FALSE,
           value |-> JsonObject(<< JsonEntry(<<"a">>, JsonNumber(<<"1">>)),
                                   JsonEntry(<<"b">>, JsonNumber(<<"1">>)) >>) ]
    [] content = JsonPairTwo ->
         [ threw |-> FALSE,
           value |-> JsonObject(<< JsonEntry(<<"a">>, JsonNumber(<<"2">>)),
                                   JsonEntry(<<"b">>, JsonNumber(<<"1">>)) >>) ]
    [] OTHER -> [ threw |-> TRUE ]

\* JsonParserPlugin.extractEntities from the result of JSON.parse on; threw
\* tells that the call ended in an exception.
JsonExtractParsed(parsed, filePath) ==
  IF parsed.threw THEN [ threw |-> TRUE, entities |-> <<>> ]
  ELSE [ threw |-> FALSE, entities |-> walk(parsed.value, <<>>, filePath, <<>>, 0) ]

JsonExtractEntities(content, filePath) ==
  JsonExtractParsed(JsonParse(content), filePath)

JsonParserPlugin == [ id |-> "json", extensions |-> << <<".", "j", "s", "o", "n">> >> ]

-----------------------------------------------------------------------------
(* parser/plugins/markdown *)

\* The number of "#" the line starts with.
RECURSIVE LeadingHashes(_)
LeadingHashes(line) ==
  IF line # <<>> /\ Head(line) = "#" THEN 1 + LeadingHashes(Tail(line)) ELSE 0

\* line.match(/^(#{1,6})\s+(.+)/), with level and name as lines 36-37 take
\* them: one to six "#", whitespace, and at least one more character (which
\* may be whitespace too, and then the name is empty).
HeadingMatchOf(line, hashes) ==
  IF /\ hashes \in 1..6
     /\ Len(line) >= hashes + 2
     /\ line[hashes + 1] \in Whitespace
    THEN [ matched |-> TRUE, level |-> hashes,
           name |-> Trim(SubSeq(line, hashes + 1, Len(line))) ]
    ELSE [ matched |-> FALSE ]

headingMatch(line) == HeadingMatchOf(line, LeadingHashes(line))

\* The while loop of lines 40-42.
RECURSIVE PopToLevel(_, _)
PopToLevel(sectionStack, level) ==
  IF Len(sectionStack) > 0 /\ sectionStack[Len(sectionStack)].level >= level
    THEN PopToLevel(SubSeq(sectionStack, 1, Len(sectionStack) - 1), level)
    ELSE sectionStack

\* The section a heading opens, lines 44-54, under the stack left by the pops.
HeadingSection(line, i, match, filePath, sectionStack) ==
  WithOptional([ level |-> match.level, name |-> match.name, startLine |-> i + 1,
                 lines |-> <<line>> ],
               "parentId", Len(sectionStack) > 0,
               IF Len(sectionStack) > 0
                 THEN buildEntityId(filePath, "heading",
                                    sectionStack[Len(sectionStack)].name, <<>>)
                 ELSE Undefined)

\* The state of the loop after the line lines[i + 1] (i counts from 0);
\* currentSection is the list of the one section, or the empty list for null.
MarkdownHeading(st, section, sectionStack) ==
  [ sections |-> st.sections \o st.currentSection,
    currentSection |-> <<section>>,
    sectionStack |-> Append(sectionStack, section) ]

MarkdownLine(st, line, i, match, filePath) ==
  IF match.matched
    THEN MarkdownHeading(st,
           HeadingSection(line, i, match, filePath,
                          PopToLevel(st.sectionStack, match.level)),
           PopToLevel(st.sectionStack, match.level))
  ELSE IF st.currentSection # <<>>
    THEN [ st EXCEPT !.currentSection[1].lines = Append(@, line) ]
  ELSE IF Trim(line) # <<>>
    THEN [ st EXCEPT !.currentSection =
             << [ level |-> 0,
                  name |-> <<"(", "p", "r", "e", "a", "m", "b", "l", "e", ")">>,
                  startLine |-> i + 1, lines |-> <<line>> ] >> ]
  ELSE st

\* The loop of lines 26-74 from lines[i + 1] on, and lines 76-78.
RECURSIVE MarkdownLoop(_, _, _, _)
MarkdownLoop(lines, i, filePath, st) ==
  IF i >= Len(lines)
    THEN st.sections \o st.currentSection
    ELSE MarkdownLoop(lines, i + 1, filePath,
                      MarkdownLine(st, lines[i + 1], i, headingMatch(lines[i + 1]),
                                   filePath))

\* The entity of a section, lines 84-96.
SectionEntity(section, sectionContent, entityType, filePath) ==
  WithOptional([ id          |-> buildEntityId(filePath, entityType, section.name, <<>>),
                 filePath    |-> filePath,
                 entityType  |-> entityType,
                 name        |-> section.name,
                 content     |-> sectionContent,
                 contentHash |-> contentHash(sectionContent),
                 startLine   |-> section.startLine,
                 endLine     |-> section.startLine + Len(section.lines) - 1 ],
               "parentId", "parentId" \in DOMAIN section,
               IF "parentId" \in DOMAIN section THEN section.parentId ELSE Undefined)

\* The loop of lines 80-97.
RECURSIVE SectionLoop(_, _, _)
SectionLoop(sections, filePath, entities) ==
  IF sections = <<>> THEN entities
  ELSE SectionLoop(Tail(sections), filePath,
         IF Trim(JoinLines(Head(sections).lines)) = <<>> THEN entities
         ELSE Append(entities,
                     SectionEntity(Head(sections), Trim(JoinLines(Head(sections).lines)),
                                   IF Head(sections).level = 0 THEN "preamble"
                                                               ELSE "heading",
                                   filePath)))

MarkdownExtractEntities(content, filePath) ==
  SectionLoop(MarkdownLoop(SplitLines(content), 0, filePath,
                           [ sections |-> <<>>, currentSection |-> <<>>,
                             sectionStack |-> <<>> ]),
              filePath, <<>>)

MarkdownParserPlugin ==
  [ id |-> "markdown",
    extensions |-> << <<".", "m", "d">>, <<".", "m", "d", "x">> >> ]

-----------------------------------------------------------------------------
(* parser/plugins/index.ts *)

\* createDefaultRegistry, with the plugins modelled here.
createDefaultRegistry ==
  register(register(register(register(register(EmptyRegistry, JsonParserPlugin),
                                       CodeParserPlugin),
                              CsvParserPlugin),
                     MarkdownParserPlugin),
           FallbackParserPlugin)

-----------------------------------------------------------------------------
(* parser/differ.ts and cli/formatters/json.ts *)

\* What a call of JsonParserPlugin.extractEntities leaves.
JsonExtracted(got, parser, cache) ==
  [ threw |-> got.threw, entities |-> got.entities, Parser |-> parser,
    grammarCache |-> cache ]

\* plugin.extractEntities(content, filePath)
PluginExtractEntities(plugin, content, filePath, parser, cache, packages) ==
  CASE plugin.id = "code" ->
         CodeExtractEntities(content, filePath, parser, cache, packages)
    [] plugin.id = "json" ->
         JsonExtracted(JsonExtractEntities(content, filePath), parser, cache)
    [] plugin.id = "csv" ->
         Extracted(CsvExtractEntities(content, filePath), parser, cache)
    [] plugin.id = "markdown" ->
         Extracted(MarkdownExtractEntities(content, filePath), parser, cache)
    [] OTHER ->
         Extracted(FallbackExtractEntities(content, filePath), parser, cache)

\* Without the catch.
Uncaught(got) == got

\* The catch of lines 37-39 and 45-47: a call that threw leaves no entities.
Caught(got) ==
  IF got.threw THEN Extracted(<<>>, got.Parser, got.grammarCache) ELSE got

\* One side of a file, lines 34-40 and 42-48: nothing for a content that is
\* undefined or empty, and nothing when the plugin throws.
ExtractSide(file, side, plugin, filePath, parser, cache, packages) ==
  IF side \notin DOMAIN file \/ file[side] = <<>>
    THEN Extracted(<<>>, parser, cache)
    ELSE Caught(PluginExtractEntities(plugin, file[side], filePath, parser, cache,
                                      packages))

\* The path of the file as it is now, whatever it was.
NewPathOf(file) == file.filePath

\* file.oldFilePath ?? file.filePath
OldPathOf(file) ==
  IF "oldFilePath" \in DOMAIN file THEN file.oldFilePath ELSE file.filePath

\* plugin.computeSimilarity ?? defaultSimilarity
SimilarityOf(plugin) ==
  IF "computeSimilarity" \in DOMAIN plugin THEN plugin.computeSimilarity
                                            ELSE "defaultSimilarity"

\* Lines 62-65: the changes of the file join those of the files before it.
\* For allChanges[k], origins[k] tells the place in the FileChange list of the
\* file it is a change of, the phase that pushed it and the positions of the
\* entities it was built from; handled counts the files the loop is through.
Collected(acc, file, result, afterSide) ==
  [ allChanges |-> IF Len(result.changes) > 0
                     THEN acc.allChanges \o result.changes ELSE acc.allChanges,
    filesWithChanges |-> IF Len(result.changes) > 0
                           THEN acc.filesWithChanges \cup {file.filePath}
                           ELSE acc.filesWithChanges,
    origins |-> acc.origins \o
                  [ k \in 1..Len(result.sides) |->
                      [ file |-> acc.handled + 1, phase |-> result.sides[k].phase,
                        before |-> result.sides[k].before,
                        after |-> result.sides[k].after ] ],
    handled |-> acc.handled + 1,
    threw |-> FALSE,
    Parser |-> afterSide.Parser,
    grammarCache |-> afterSide.grammarCache ]

\* An exception that no catch took leaves the loop and the function.
Thrown(acc, side) ==
  [ acc EXCEPT !.threw = TRUE, !.Parser = side.Parser,
               !.grammarCache = side.grammarCache ]

\* Lines 51-65, with both sides extracted.
MatchedFile(acc, file, plugin, beforeSide, afterSide, commitSha, author) ==
  IF afterSide.threw THEN Thrown(acc, afterSide)
  ELSE Collected(acc, file,
                 matchEntities(beforeSide.entities, afterSide.entities, file.filePath,
                               SimilarityOf(plugin), commitSha, author),
                 afterSide)

\* Lines 42-65, with the before side extracted.
AfterBeforeSide(acc, file, plugin, beforeSide, commitSha, author, packages) ==
  IF beforeSide.threw THEN Thrown(acc, beforeSide)
  ELSE MatchedFile(acc, file, plugin, beforeSide,
                   ExtractSide(file, "afterContent", plugin, file.filePath,
                               beforeSide.Parser, beforeSide.grammarCache, packages),
                   commitSha, author)

\* The body of the loop for a file that has a plugin, lines 31-65.
DiffFile(acc, file, plugin, commitSha, author, packages) ==
  AfterBeforeSide(acc, file, plugin,
                  ExtractSide(file, "beforeContent", plugin, OldPathOf(file),
                              acc.Parser, acc.grammarCache, packages),
                  commitSha, author, packages)

\* Lines 28-29 and the body: a file without a plugin is passed over.
DiffFileOf(acc, file, got, commitSha, author, packages) ==
  IF got.found THEN DiffFile(acc, file, got.plugin, commitSha, author, packages)
               ELSE [ acc EXCEPT !.handled = @ + 1 ]

\* The loop of computeSemanticDiff over the files left, lines 27-66.
RECURSIVE DiffLoop(_, _, _, _, _, _)
DiffLoop(files, registry, commitSha, author, packages, acc) ==
  IF files = <<>> \/ acc.threw THEN acc
  ELSE DiffLoop(Tail(files), registry, commitSha, author, packages,
                DiffFileOf(acc, Head(files), getPlugin(registry, Head(files).filePath),
                           commitSha, author, packages))

CountOf(allChanges, changeType) ==
  Len(SelectSeq(allChanges, LAMBDA c : c.changeType = changeType))

\* Lines 68-76: the DiffResult, and the module variables of the code plugin as
\* the call leaves them; threw tells that the call ended in an exception
\* instead.
Summarised(acc) ==
  [ threw |-> acc.threw,
    result |->
      [ changes       |-> acc.allChanges,
        fileCount     |-> Cardinality(acc.filesWithChanges),
        addedCount    |-> CountOf(acc.allChanges, "added"),
        modifiedCount |-> CountOf(acc.allChanges, "modified"),
        deletedCount  |-> CountOf(acc.allChanges, "deleted"),
        movedCount    |-> CountOf(acc.allChanges, "moved"),
        renamedCount  |-> CountOf(acc.allChanges, "renamed") ],
    origins |-> acc.origins,
    Parser |-> acc.Parser,
    grammarCache |-> acc.grammarCache ]

computeSemanticDiff(files, registry, commitSha, author, parser, cache, packages) ==
  Summarised(DiffLoop(files, registry, commitSha, author, packages,
                      [ allChanges |-> <<>>, filesWithChanges |-> {},
                        origins |-> <<>>, handled |-> 0, threw |-> FALSE,
                        Parser |-> parser, grammarCache |-> cache ]))

\* The keys of a change that formatJson writes, in the order it writes them.
JsonChangeKeys ==
  << "entityId", "changeType", "entityType", "entityName", "filePath",
     "oldFilePath", "beforeContent", "afterContent", "commitSha", "author" >>

\* JSON.stringify of an object is the sequence of its <<key, value>> members,
\* the undefined ones left out; of an array, the sequence of its elements.
JsonChange(c) ==
  LET keys == SelectSeq(JsonChangeKeys, LAMBDA k : k \in DOMAIN c)
  IN  [ i \in 1..Len(keys) |-> <<keys[i], c[keys[i]]>> ]

formatJson(result) ==
  << <<"summary",
       << <<"fileCount", result.fileCount>>,
          <<"added", result.addedCount>>,
          <<"modified", result.modifiedCount>>,
          <<"deleted", result.deletedCount>>,
          <<"moved", result.movedCount>>,
          <<"renamed", result.renamedCount>>,
          <<"total", Len(result.changes)>> >> >>,
     <<"changes",
       [ i \in 1..Len(result.changes) |-> JsonChange(result.changes[i]) ]>> >>

-----------------------------------------------------------------------------
(* storage/database.ts and storage/schema.ts: the table `entities` *)

\* The table is the list of its rows in the order of their rowids.  NULL in
\* the column parent_id is the empty id, and "null" in commit_sha.
EntityRow(e, snapshot, commitSha) ==
  [ id           |-> e.id,
    file_path    |-> e.filePath,
    entity_type  |-> e.entityType,
    name         |-> e.name,
    parent_id    |-> IF "parentId" \in DOMAIN e THEN e.parentId ELSE <<>>,
    content      |-> e.content,
    content_hash |-> e.contentHash,
    start_line   |-> e.startLine,
    end_line     |-> e.endLine,
    commit_sha   |-> IF commitSha # Undefined THEN commitSha ELSE "null",
    snapshot     |-> snapshot ]

\* INSERT OR IGNORE: the row is left out when the table has its id.
InsertOrIgnore(rows, row) ==
  IF \E n \in 1..Len(rows) : rows[n].id = row.id THEN rows ELSE Append(rows, row)

\* INSERT OR REPLACE with the primary key id: the row that has the id goes,
\* whatever its snapshot, and the new row comes last.
InsertOrReplace(rows, row) ==
  Append(SelectSeq(rows, LAMBDA r : r.id # row.id), row)

\* The transaction of insertEntities, lines 37-43.
RECURSIVE InsertLoop(_, _, _, _)
InsertLoop(rows, ents, snapshot, commitSha) ==
  IF ents = <<>> THEN rows
  ELSE InsertLoop(InsertOrReplace(rows, EntityRow(Head(ents), snapshot, commitSha)),
                  Tail(ents), snapshot, commitSha)

insertEntities(rows, entities, snapshot, commitSha) ==
  InsertLoop(rows, entities, snapshot, commitSha)

\* The entity of a row, lines 56-66.
RowEntity(row) ==
  WithOptional([ id          |-> row.id,
                 filePath    |-> row.file_path,
                 entityType  |-> row.entity_type,
                 name        |-> row.name,
                 content     |-> row.content,
                 contentHash |-> row.content_hash,
                 startLine   |-> row.start_line,
                 endLine     |-> row.end_line ],
               "parentId", row.parent_id # <<>>, row.parent_id)

\* getEntities; a filePath that was not passed, or is empty, is <<>>.
SelectedRows(rows, snapshot, filePath) ==
  SelectSeq(rows, LAMBDA r : /\ r.snapshot = snapshot
                             /\ filePath # <<>> => r.file_path = filePath)

EntitiesOfRows(selected) == [ n \in 1..Len(selected) |-> RowEntity(selected[n]) ]

getEntities(rows, snapshot, filePath) ==
  EntitiesOfRows(SelectedRows(rows, snapshot, filePath))

clearSnapshot(rows, snapshot) == SelectSeq(rows, LAMBDA r : r.snapshot # snapshot)

\* The row of the table `changes` that insertChanges writes for c, lines 74-81;
\* now is the value of datetime('now').  NULL is the empty text in the columns
\* that hold a path or a content, and "null" in commit_sha and author.
ChangeRow(c, now) ==
  [ id             |-> c.id,
    entity_id      |-> c.entityId,
    change_type    |-> c.changeType,
    entity_type    |-> c.entityType,
    entity_name    |-> c.entityName,
    file_path      |-> c.filePath,
    old_file_path  |-> IF "oldFilePath" \in DOMAIN c THEN c.oldFilePath ELSE <<>>,
    before_content |-> IF "beforeContent" \in DOMAIN c THEN c.beforeContent ELSE <<>>,
    after_content  |-> IF "afterContent" \in DOMAIN c THEN c.afterContent ELSE <<>>,
    commit_sha     |-> IF "commitSha" \in DOMAIN c THEN c.commitSha ELSE "null",
    author         |-> IF "author" \in DOMAIN c THEN c.author ELSE "null",
    timestamp      |-> now ]

\* The transaction of insertChanges, lines 79-85: INSERT OR REPLACE with the
\* primary key id of the table `changes`.
RECURSIVE InsertChangesLoop(_, _, _)
InsertChangesLoop(rows, chs, now) ==
  IF chs = <<>> THEN rows
  ELSE InsertChangesLoop(InsertOrReplace(rows, ChangeRow(Head(chs), now)),
                         Tail(chs), now)

insertChanges(rows, chs, now) == InsertChangesLoop(rows, chs, now)

\* The change of a row, lines 117-130.
RowChange(row) ==
  WithOptional(WithOptional(WithOptional(WithOptional(WithOptional(
    [ id         |-> row.id,
      entityId   |-> row.entity_id,
      changeType |-> row.change_type,
      entityType |-> row.entity_type,
      entityName |-> row.entity_name,
      filePath   |-> row.file_path,
      timestamp  |-> row.timestamp ],
    "oldFilePath", row.old_file_path # <<>>, row.old_file_path),
    "beforeContent", row.before_content # <<>>, row.before_content),
    "afterContent", row.after_content # <<>>, row.after_content),
    "commitSha", row.commit_sha # "null", row.commit_sha),
    "author", row.author # "null", row.author)

\* Lines 89-107: the filters of getChanges; opts holds the ones that are set.
FilteredChanges(rows, opts) ==
  SelectSeq(rows, LAMBDA r :
    /\ "filePath" \in DOMAIN opts => r.file_path = opts.filePath
    /\ "changeType" \in DOMAIN opts => r.change_type = opts.changeType
    /\ "entityType" \in DOMAIN opts => r.entity_type = opts.entityType
    /\ "commitSha" \in DOMAIN opts => r.commit_sha = opts.commitSha)

\* ORDER BY timestamp DESC: the table holds its rows in the order they were
\* written, so the timestamps ascend and the rows are read from the last.
OrderByTimestampDesc(rows) == [ n \in 1..Len(rows) |-> rows[Len(rows) + 1 - n] ]

\* Lines 111-114: LIMIT.
Limited(rows, opts) ==
  IF "limit" \in DOMAIN opts /\ opts.limit < Len(rows)
    THEN SubSeq(rows, 1, opts.limit) ELSE rows

getChanges(rows, opts) ==
  LET read == Limited(OrderByTimestampDesc(FilteredChanges(rows, opts)), opts)
  IN  [ n \in 1..Len(read) |-> RowChange(read[n]) ]

-----------------------------------------------------------------------------
(* A call of matchEntities, phase by phase *)

\* The locals of the call as one record, and back.
Locals ==
  [ changes |-> changes, sides |-> sides,
    matchedBefore |-> matchedBefore, matchedAfter |-> matchedAfter ]

SetLocals(m) ==
  /\ changes' = m.changes
  /\ sides' = m.sides
  /\ matchedBefore' = m.matchedBefore
  /\ matchedAfter' = m.matchedAfter

\* A caller passes a before list extracted under the old path of the file and
\* an after list extracted under its new path, with or without a similarity
\* function, and no commit.
Init ==
  /\ \E oldPath \in OldPaths : before \in SeqsUpTo(EntitiesAt(oldPath), MaxEntities)
  /\ after \in SeqsUpTo(EntitiesAt(NewPath), MaxEntities)
  /\ similarityFn \in {Undefined, "defaultSimilarity"}
  /\ pc = "phase1"
  /\ changes = <<>>
  /\ sides = <<>>
  /\ matchedBefore = {}
  /\ matchedAfter = {}
  /\ unmatchedBefore = <<>>
  /\ unmatchedAfter = <<>>
  /\ fileChanges = <<>>
  /\ invocation = [ registry |-> EmptyRegistry, commitSha |-> Undefined,
                    author |-> Undefined ]
  /\ installed = {}
  /\ Parser = "null"
  /\ grammarCache = EmptyMap
  /\ results = <<>>
  /\ origins = <<>>
  /\ outputs = <<>>
  /\ extraction = <<>>
  /\ repository = <<>>
  /\ command = <<>>
  /\ registration = <<>>
  /\ database = <<>>

\* Lines 65-94: phase 1 and the collection of the unmatched entities.
ExactIdMatch ==
  /\ pc = "phase1"
  /\ LET m == Phase1(before, after, Locals, Undefined, Undefined)
     IN  /\ SetLocals(m)
         /\ unmatchedBefore' = Unmatched(before, m.matchedBefore)
         /\ unmatchedAfter' = Unmatched(after, m.matchedAfter)
  /\ pc' = "phase2"
  /\ UNCHANGED <<before, after, similarityFn>>
  /\ UNCHANGED <<diffVars, extraction, storeVars, commandVars>>

\* Lines 96-131.
ContentHashMatch ==
  /\ pc = "phase2"
  /\ SetLocals(Phase2(before, after, Locals, unmatchedBefore, unmatchedAfter,
                      Undefined, Undefined))
  /\ pc' = "phase3"
  /\ UNCHANGED <<before, after, similarityFn, unmatchedBefore, unmatchedAfter>>
  /\ UNCHANGED <<diffVars, extraction, storeVars, commandVars>>

\* Lines 133-177.
FuzzyMatch ==
  /\ pc = "phase3"
  /\ SetLocals(Phase3(before, after, Locals, similarityFn,
                      unmatchedBefore, unmatchedAfter, Undefined, Undefined))
  /\ pc' = "terminal"
  /\ UNCHANGED <<before, after, similarityFn, unmatchedBefore, unmatchedAfter>>
  /\ UNCHANGED <<diffVars, extraction, storeVars, commandVars>>

\* Lines 179-209.
DeletedAndAdded ==
  /\ pc = "terminal"
  /\ SetLocals(Terminal(before, after, Locals, Undefined, Undefined))
  /\ pc' = "done"
  /\ UNCHANGED <<before, after, similarityFn, unmatchedBefore, unmatchedAfter>>
  /\ UNCHANGED <<diffVars, extraction, storeVars, commandVars>>

Next == ExactIdMatch \/ ContentHashMatch \/ FuzzyMatch \/ DeletedAndAdded

Spec == Init /\ [][Next]_vars

\* The phases, run one after the other, are the whole call.
PhasesAreTheCall ==
  pc = "done" =>
    Locals = matchEntities(before, after, NewPath, similarityFn, Undefined, Undefined)

-----------------------------------------------------------------------------
(* Runs of the diff in one process *)

PathATs  == <<"a", ".", "t", "s">>
PathBTsx == <<"b", ".", "T", "S", "X">>
PathPPy  == <<"p", ".", "p", "y">>
PathCTxt == <<"d", "o", "c", "/", "c", ".", "t", "x", "t">>
PathRMd == <<"r", ".", "m", "d">>
PathDJson == <<"d", ".", "j", "s", "o", "n">>
Paths == {PathATs, PathBTsx, PathPPy, PathCTxt}

\* The changes git may report for a path.
FileChangesAt(filePath) ==
  { [ filePath |-> filePath, status |-> "added", afterContent |-> c ] :
      c \in {ContentABCD, SourceExportedClass} }
  \cup
  { [ filePath |-> filePath, status |-> "deleted", beforeContent |-> ContentABCD ] }
  \cup
  { [ filePath |-> filePath, status |-> "modified",
      beforeContent |-> ContentABCD, afterContent |-> c ] :
      c \in {ContentABCDE, SourceExportedClass} }

RenamedFileChanges ==
  { [ filePath |-> PathBTsx, oldFilePath |-> PathATs, status |-> "renamed",
      beforeContent |-> c, afterContent |-> c ] :
      c \in {ContentABCD, SourceExportedClass} }

FileChanges == UNION { FileChangesAt(p) : p \in Paths } \cup RenamedFileChanges

\* The packages that may be installed beside sem: all of them, all but
\* tree-sitter, all but the python grammar.
PackageSets ==
  { {"tree-sitter", "tree-sitter-typescript", "tree-sitter-python"},
    {"tree-sitter-typescript", "tree-sitter-python"},
    {"tree-sitter", "tree-sitter-typescript"} }

\* How the commands call computeSemanticDiff: diff and watch with the default
\* registry and no commit, log with a commit and its author; and a caller of
\* the library with a registry of its own, without the fallback plugin.
Invocations ==
  { [ registry |-> createDefaultRegistry, commitSha |-> Undefined,
      author |-> Undefined ],
    [ registry |-> createDefaultRegistry, commitSha |-> "abc1234",
      author |-> "dev" ],
    [ registry |-> register(EmptyRegistry, CodeParserPlugin),
      commitSha |-> Undefined, author |-> Undefined ] }

DiffInit ==
  /\ fileChanges \in SeqsUpTo(FileChanges, MaxFiles)
  /\ invocation \in Invocations
  /\ installed \in PackageSets
  /\ Parser = "null"
  /\ grammarCache = EmptyMap
  /\ results = <<>>
  /\ origins = <<>>
  /\ outputs = <<>>
  /\ extraction = <<>>
  /\ repository = <<>>
  /\ command = <<>>
  /\ registration = <<>>
  /\ database = <<>>
  /\ before = <<>>
  /\ after = <<>>
  /\ similarityFn = Undefined
  /\ pc = "idle"
  /\ changes = <<>>
  /\ sides = <<>>
  /\ matchedBefore = {}
  /\ matchedAfter = {}
  /\ unmatchedBefore = <<>>
  /\ unmatchedAfter = <<>>

\* What a run leaves in the process: its result and the text, or the mark of
\* a call that ended in an exception and no text.
Ran(run) ==
  /\ results' = Append(results, IF run.threw THEN [ threw |-> TRUE ] ELSE run.result)
  /\ origins' = run.origins
  /\ outputs' = Append(outputs, IF run.threw THEN <<>> ELSE formatJson(run.result))
  /\ Parser' = run.Parser
  /\ grammarCache' = run.grammarCache

\* One run of computeSemanticDiff and of formatJson on its result.
RunDiff ==
  /\ Len(outputs) < MaxRuns
  /\ Ran(computeSemanticDiff(fileChanges, invocation.registry,
                             invocation.commitSha, invocation.author,
                             Parser, grammarCache, installed))
  /\ UNCHANGED <<fileChanges, invocation, installed>>
  /\ UNCHANGED <<matcherVars, extraction, storeVars, commandVars>>

DiffNext == RunDiff

DiffSpec == DiffInit /\ [][DiffNext]_vars

-----------------------------------------------------------------------------
(* Runs of the diff over tables *)

PathTCsv == <<"t", ".", "c", "s", "v">>
PathUCsv == <<"u", ".", "c", "s", "v">>

\* The rows "a,1", "a,2", "a,3", "b,1", "b,2", and two rows without a key,
\* ", a b c d" and ", a b c d e".
RowA1 == <<"a", ",", "1">>
RowA2 == <<"a", ",", "2">>
RowA3 == <<"a", ",", "3">>
RowB1 == <<"b", ",", "1">>
RowB2 == <<"b", ",", "2">>
RowABCD == <<",", " ", "a", " ", "b", " ", "c", " ", "d">>
RowABCDE == <<",", " ", "a", " ", "b", " ", "c", " ", "d", " ", "e">>

\* The text of a table with the header "k,v".
Table(rows) == JoinLines(<< <<"k", ",", "v">> >> \o rows)

\* The tables a file may hold: with distinct keys, with a key that is there
\* twice, with a row without a key in several places.
Tables ==
  { Table(<<RowA1, RowB1>>), Table(<<RowA2, RowB2, RowA3>>),
    Table(<<RowABCD, RowA1>>), Table(<<RowB2, RowABCDE, RowA1>>),
    Table(<<RowA1, RowABCD>>) }

TableFileChanges ==
  { [ filePath |-> PathTCsv, status |-> "added", afterContent |-> t ] : t \in Tables }
  \cup
  { [ filePath |-> PathTCsv, status |-> "deleted", beforeContent |-> t ] :
      t \in Tables }
  \cup
  { [ filePath |-> PathTCsv, status |-> "modified",
      beforeContent |-> t[1], afterContent |-> t[2] ] :
      t \in { u \in Tables \X Tables : u[1] # u[2] } }
  \cup
  { [ filePath |-> PathUCsv, oldFilePath |-> PathTCsv, status |-> "renamed",
      beforeContent |-> t[1], afterContent |-> t[2] ] :
      t \in { <<Table(<<RowA1, RowB1>>), Table(<<RowA1, RowB1>>)>>,
              <<Table(<<RowABCD, RowA1>>), Table(<<RowB2, RowABCDE, RowA1>>)>> } }

\* `sem diff` over changed tables: the default registry, no commit, every
\* package installed.
TableDiffInit ==
  /\ fileChanges \in SeqsUpTo(TableFileChanges, MaxFiles)
  /\ invocation = [ registry |-> createDefaultRegistry, commitSha |-> Undefined,
                    author |-> Undefined ]
  /\ installed = {"tree-sitter", "tree-sitter-typescript", "tree-sitter-python"}
  /\ Parser = "null"
  /\ grammarCache = EmptyMap
  /\ results = <<>>
  /\ origins = <<>>
  /\ outputs = <<>>
  /\ extraction = <<>>
  /\ repository = <<>>
  /\ command = <<>>
  /\ registration = <<>>
  /\ database = <<>>
  /\ before = <<>>
  /\ after = <<>>
  /\ similarityFn = Undefined
  /\ pc = "idle"
  /\ changes = <<>>
  /\ sides = <<>>
  /\ matchedBefore = {}
  /\ matchedAfter = {}
  /\ unmatchedBefore = <<>>
  /\ unmatchedAfter = <<>>

TableDiffSpec == TableDiffInit /\ [][DiffNext]_vars

-----------------------------------------------------------------------------
(* Runs of the diff over rewritten sources *)

\* A process that has not run the diff yet, and calls matchEntities only
\* from the diff.
FreshProcess ==
  /\ Parser = "null"
  /\ grammarCache = EmptyMap
  /\ results = <<>>
  /\ origins = <<>>
  /\ outputs = <<>>
  /\ before = <<>>
  /\ after = <<>>
  /\ similarityFn = Undefined
  /\ pc = "idle"
  /\ changes = <<>>
  /\ sides = <<>>
  /\ matchedBefore = {}
  /\ matchedAfter = {}
  /\ unmatchedBefore = <<>>
  /\ unmatchedAfter = <<>>

\* `sem diff`: the default registry, no commit, every package installed.
SemDiff ==
  /\ invocation = [ registry |-> createDefaultRegistry, commitSha |-> Undefined,
                    author |-> Undefined ]
  /\ installed = {"tree-sitter", "tree-sitter-typescript", "tree-sitter-python"}

RewriteFileChanges ==
  { [ filePath |-> p, status |-> "modified",
      beforeContent |-> t[1], afterContent |-> t[2] ] :
      p \in {PathATs, PathBTsx, PathPPy}, t \in FunctionTexts \X FunctionTexts }

RewriteDiffInit ==
  /\ fileChanges \in SeqsUpTo(RewriteFileChanges, MaxFiles)
  /\ extraction = <<>>
  /\ repository = <<>>
  /\ command = <<>>
  /\ registration = <<>>
  /\ database = <<>>
  /\ SemDiff
  /\ FreshProcess

RewriteDiffSpec == RewriteDiffInit /\ [][DiffNext]_vars

-----------------------------------------------------------------------------
(* Runs of the diff over JSON files, some of them cut short *)

JsonSources == {JsonFlat, JsonNested, JsonCut}

JsonFileChanges ==
  { [ filePath |-> PathDJson, status |-> "added", afterContent |-> c ] :
      c \in JsonSources }
  \cup
  { [ filePath |-> PathDJson, status |-> "deleted", beforeContent |-> c ] :
      c \in JsonSources }
  \cup
  { [ filePath |-> PathDJson, status |-> "modified",
      beforeContent |-> c[1], afterContent |-> c[2] ] :
      c \in JsonSources \X JsonSources }
  \cup
  { [ filePath |-> PathATs, status |-> "modified",
      beforeContent |-> ContentABCD, afterContent |-> ContentABCDE ],
    [ filePath |-> PathPPy, status |-> "added", afterContent |-> ContentABCD ] }

JsonDiffInit ==
  /\ fileChanges \in SeqsUpTo(JsonFileChanges, MaxFiles)
  /\ extraction = <<>>
  /\ repository = <<>>
  /\ command = <<>>
  /\ registration = <<>>
  /\ database = <<>>
  /\ SemDiff
  /\ FreshProcess

JsonDiffSpec == JsonDiffInit /\ [][DiffNext]_vars

-----------------------------------------------------------------------------
(* Runs of the diff over renamed files *)

\* The renames: within the code plugin, with and without a change of the
\* grammar, and from the code plugin to the fallback plugin and back; the
\* pairs of texts of a renamed source; and the tables of a renamed table,
\* one of them with a row that is there twice.
RenamedPaths ==
  { <<PathATs, PathBTsx>>, <<PathATs, PathPPy>>, <<PathATs, PathCTxt>>,
    <<PathCTxt, PathATs>> }

RenamedSources ==
  { <<ContentABCD, ContentABCD>>, <<SourceExportedClass, SourceExportedClass>>,
    <<SourceTwiceF, SourceTwiceF>>, <<ContentABCD, ContentABCDE>> }

RenamedTables ==
  { Table(<<RowA1, RowB1>>), Table(<<RowA2, RowB2, RowA3>>),
    Table(<<RowA1, RowA1>>) }

RenameFileChanges ==
  { [ filePath |-> r[2], oldFilePath |-> r[1], status |-> "renamed",
      beforeContent |-> c[1], afterContent |-> c[2] ] :
      r \in RenamedPaths, c \in RenamedSources }
  \cup
  { [ filePath |-> PathUCsv, oldFilePath |-> PathTCsv, status |-> "renamed",
      beforeContent |-> t[1], afterContent |-> t[2] ] :
      t \in RenamedTables \X RenamedTables }

RenameDiffInit ==
  /\ fileChanges \in SeqsUpTo(RenameFileChanges, MaxFiles)
  /\ extraction = <<>>
  /\ repository = <<>>
  /\ command = <<>>
  /\ registration = <<>>
  /\ database = <<>>
  /\ SemDiff
  /\ FreshProcess

RenameDiffSpec == RenameDiffInit /\ [][DiffNext]_vars

-----------------------------------------------------------------------------
(* A ParserRegistry and the calls of register and getPlugin *)

\* The plugins a caller may register: those of sem, and plugins of its own
\* for extensions that sem's plugins have, one written in capitals, and one
\* under the id of the code plugin.
OwnTsPlugin == [ id |-> "ts", extensions |-> << ExtTs >> ]
OwnCapitalsPlugin == [ id |-> "capitals", extensions |-> << <<".", "T", "S">> >> ]
OwnCodePlugin == [ id |-> "code", extensions |-> << ExtPy >> ]

RegistryPlugins ==
  {CodeParserPlugin, CsvParserPlugin, FallbackParserPlugin, OwnTsPlugin,
   OwnCapitalsPlugin, OwnCodePlugin}

\* "a.TS", "makefile"
PathATS == <<"a", ".", "T", "S">>
PathMakefile == <<"m", "a", "k", "e", "f", "i", "l", "e">>

LookupPaths == {PathATs, PathATS, PathBTsx, PathPPy, PathCTxt, PathTCsv, PathMakefile}

RegistryInit ==
  /\ registration = [ registry |-> EmptyRegistry, registered |-> <<>>,
                      looked |-> <<>> ]
  /\ database = <<>>
  /\ extraction = <<>>
  /\ repository = <<>>
  /\ command = <<>>
  /\ fileChanges = <<>>
  /\ SemDiff
  /\ FreshProcess

\* registry.register(plugin)
Register ==
  /\ Len(registration.registered) < MaxRegistered
  /\ \E plugin \in RegistryPlugins :
       registration' = [ registry |-> register(registration.registry, plugin),
                         registered |-> Append(registration.registered, plugin),
                         looked |-> <<>> ]
  /\ UNCHANGED <<matcherVars, diffVars, extraction, database, commandVars>>

\* registry.getPlugin(filePath)
GetPlugin ==
  /\ \E filePath \in LookupPaths :
       registration' = [ registration EXCEPT
                           !.looked = << filePath,
                                         getPlugin(registration.registry, filePath) >> ]
  /\ UNCHANGED <<matcherVars, diffVars, extraction, database, commandVars>>

RegistryNext == Register \/ GetPlugin

RegistrySpec == RegistryInit /\ [][RegistryNext]_vars

-----------------------------------------------------------------------------
(* A SemDatabase and the calls of insertEntities, getEntities, clearSnapshot *)

\* The entities that are stored: the method of a class, the function f in two
\* versions, and a row of a table.
StorableEntities ==
  { e \in Range(CodeExtractEntities(SourceExportedClass, PathATs, "null", EmptyMap,
                                    {"tree-sitter", "tree-sitter-typescript"}
                                   ).entities) : "parentId" \in DOMAIN e }
    \cup Range(CodeExtractEntities(ContentABCD, PathATs, "null", EmptyMap,
                                   {"tree-sitter", "tree-sitter-typescript"}).entities)
    \cup Range(CodeExtractEntities(ContentABCDWide, PathATs, "null", EmptyMap,
                                   {"tree-sitter", "tree-sitter-typescript"}).entities)
    \cup Range(CsvExtractEntities(Table(<<RowA1>>), PathTCsv))

\* The lists of stored entities: at most MaxEntities of them, no id twice.
StorableLists ==
  { list \in SeqsUpTo(StorableEntities, MaxEntities) :
      \A i, j \in 1..Len(list) : i # j => list[i].id # list[j].id }

Snapshots == {"current", "before"}

\* The commit of a snapshot: none for the working tree, one for the other.
CommitOf(snapshot) == IF snapshot = "current" THEN Undefined ELSE "abc1234"

QueryPaths == {<<>>, PathATs, PathTCsv}

DatabaseInit ==
  /\ database = [ rows |-> <<>>, writes |-> 0, call |-> [ op |-> "open" ] ]
  /\ registration = <<>>
  /\ extraction = <<>>
  /\ repository = <<>>
  /\ command = <<>>
  /\ fileChanges = <<>>
  /\ SemDiff
  /\ FreshProcess

\* db.insertEntities(entities, snapshot, commitSha)
InsertEntities ==
  /\ database.writes < MaxWrites
  /\ \E entities \in StorableLists, snapshot \in Snapshots :
       database' = [ rows |-> insertEntities(database.rows, entities, snapshot,
                                             CommitOf(snapshot)),
                     writes |-> database.writes + 1,
                     call |-> [ op |-> "insertEntities", entities |-> entities,
                                snapshot |-> snapshot, rowsBefore |-> database.rows ] ]
  /\ UNCHANGED <<matcherVars, diffVars, extraction, registration, commandVars>>

\* db.clearSnapshot(snapshot)
ClearSnapshot ==
  /\ database.writes < MaxWrites
  /\ \E snapshot \in Snapshots :
       database' = [ rows |-> clearSnapshot(database.rows, snapshot),
                     writes |-> database.writes + 1,
                     call |-> [ op |-> "clearSnapshot", snapshot |-> snapshot ] ]
  /\ UNCHANGED <<matcherVars, diffVars, extraction, registration, commandVars>>

\* db.getEntities(snapshot, filePath)
GetEntities ==
  /\ \E snapshot \in Snapshots, filePath \in QueryPaths :
       database' = [ database EXCEPT
                       !.call = [ op |-> "getEntities", snapshot |-> snapshot,
                                  filePath |-> filePath,
                                  returned |-> getEntities(database.rows, snapshot,
                                                           filePath) ] ]
  /\ UNCHANGED <<matcherVars, diffVars, extraction, registration, commandVars>>

DatabaseNext == InsertEntities \/ ClearSnapshot \/ GetEntities

DatabaseSpec == DatabaseInit /\ [][DatabaseNext]_vars

-----------------------------------------------------------------------------
(* Calls of extractEntities *)

\* Markdown sources: a heading with a sub-heading, two headings of one text,
\* and a preamble before lines that look like headings and headings of
\* several levels.
MarkdownNested ==
  <<"#", " ", "a", "\n", "x", "\n", "#", "#", " ", "b", "\n", "y">>
MarkdownTwiceA ==
  <<"#", " ", "a", "\n", "x", "\n", "#", " ", "a", "\n", "y">>
MarkdownPreamble ==
  <<"\n", "x", "\n", "#", "a", "\n", "#", "#", "#", "#", "#", "#", "#", " ",
    "a", "\n", "#", " ", " ", "\n", "#", "#", " ", "b", "\n", "#", " ", "c",
    "\n", "#", "#", "#", " ", "d">>

ExtractPlugins ==
  {JsonParserPlugin, CodeParserPlugin, CsvParserPlugin, MarkdownParserPlugin,
   FallbackParserPlugin}

ExtractPaths == {PathATs, PathPPy, PathTCsv, PathRMd, PathDJson}

ExtractContents ==
  {ContentABCD, SourceExportedClass, SourceTwiceF, ContentABCDEF,
   JsonFlat, JsonNested, JsonElements, JsonDeep, JsonCut,
   MarkdownNested, MarkdownTwiceA, MarkdownPreamble}
    \cup Tables

ExtractInit ==
  /\ extraction \in [ plugin : ExtractPlugins, content : ExtractContents,
                       filePath : ExtractPaths, returned : {FALSE} ]
  /\ registration = <<>>
  /\ database = <<>>
  /\ repository = <<>>
  /\ command = <<>>
  /\ fileChanges = <<>>
  /\ SemDiff
  /\ FreshProcess

\* What the call leaves.
Returned(got) ==
  /\ extraction' = [ plugin |-> extraction.plugin, content |-> extraction.content,
                     filePath |-> extraction.filePath, returned |-> TRUE,
                     threw |-> got.threw, entities |-> got.entities ]
  /\ Parser' = got.Parser
  /\ grammarCache' = got.grammarCache

\* plugin.extractEntities(content, filePath)
Extract ==
  /\ ~extraction.returned
  /\ Returned(PluginExtractEntities(extraction.plugin, extraction.content,
                                    extraction.filePath, Parser, grammarCache,
                                    installed))
  /\ UNCHANGED <<fileChanges, invocation, installed, results, origins, outputs>>
  /\ UNCHANGED <<matcherVars, storeVars, commandVars>>

ExtractNext == Extract

ExtractSpec == ExtractInit /\ [][ExtractNext]_vars

-----------------------------------------------------------------------------
(* Calls of extractEntities of the fallback plugin *)

\* A text of n lines "x", without a line break after the last; the empty
\* text for n = 0.
TextOfLines(n) ==
  [ k \in 1..(IF n = 0 THEN 0 ELSE 2 * n - 1) |-> IF k % 2 = 1 THEN "x" ELSE "\n" ]

FallbackInit ==
  /\ extraction \in [ plugin : {FallbackParserPlugin},
                       content : { TextOfLines(n) : n \in 0..MaxLines },
                       filePath : {PathCTxt, PathMakefile, PathATs},
                       returned : {FALSE} ]
  /\ registration = <<>>
  /\ database = <<>>
  /\ repository = <<>>
  /\ command = <<>>
  /\ fileChanges = <<>>
  /\ SemDiff
  /\ FreshProcess

FallbackSpec == FallbackInit /\ [][ExtractNext]_vars

-----------------------------------------------------------------------------
(* Calls of extractEntities of the CSV plugin on quoted tables *)

PathTTsv == <<"t", ".", "t", "s", "v">>

\* The separator of the file at a path, line 16 of csv/index.ts.
SeparatorOf(filePath) ==
  IF EndsWith(filePath, <<".", "t", "s", "v">>) THEN "\t" ELSE ","

\* A field as RFC 4180 writes it: enclosed in double quotes, each quote of it
\* doubled, when it holds a separator, a quote or a line break.
RECURSIVE QuotesDoubled(_)
QuotesDoubled(cell) ==
  IF cell = <<>> THEN <<>>
  ELSE (IF Head(cell) = "\"" THEN <<"\"", "\"">> ELSE <<Head(cell)>>)
         \o QuotesDoubled(Tail(cell))

WrittenField(cell, separator) ==
  IF Range(cell) \cap {separator, "\"", "\n"} # {}
    THEN <<"\"">> \o QuotesDoubled(cell) \o <<"\"">>
    ELSE cell

\* A record as RFC 4180 writes it: its fields, the separator between them.
RECURSIVE WrittenRecord(_, _)
WrittenRecord(record, separator) ==
  IF Len(record) = 1 THEN WrittenField(record[1], separator)
  ELSE WrittenField(record[1], separator) \o <<separator>>
         \o WrittenRecord(Tail(record), separator)

\* The file of the records: one record after the other, a line break between
\* them.
WrittenFile(records, separator) ==
  JoinLines([ n \in 1..Len(records) |-> WrittenRecord(records[n], separator) ])

\* The values of the second column: plain, with the separator, with a quote,
\* with a line break.
QuotedCells(separator) ==
  { <<"x">>, <<"x", separator, "y">>, <<"x", "\"", "y">>, <<"x", "\n", "y">>,
    <<"\"">> }

\* The tables with the header k,v and one or two records with the keys 1
\* and 2.
QuotedRecords(separator) ==
  { << <<<<"k">>, <<"v">>>>, <<<<"1">>, c>> >> : c \in QuotedCells(separator) }
  \cup
  { << <<<<"k">>, <<"v">>>>, <<<<"1">>, c[1]>>, <<<<"2">>, c[2]>> >> :
      c \in QuotedCells(separator) \X QuotedCells(separator) }

QuotedInit ==
  /\ extraction \in
       UNION { [ plugin : {CsvParserPlugin},
                 content : { WrittenFile(r, SeparatorOf(f)) :
                               r \in QuotedRecords(SeparatorOf(f)) },
                 filePath : {f},
                 returned : {FALSE} ] : f \in {PathTCsv, PathTTsv} }
  /\ registration = <<>>
  /\ database = <<>>
  /\ repository = <<>>
  /\ command = <<>>
  /\ fileChanges = <<>>
  /\ SemDiff
  /\ FreshProcess

QuotedSpec == QuotedInit /\ [][ExtractNext]_vars

-----------------------------------------------------------------------------
(* git/bridge.ts and git/diff-reader.ts, and what git answers *)

\* A repository is its commits, the oldest first, each with its sha, its
\* author and its tree, beside the tree of the index and the files of the
\* working directory.  A tree maps the paths it holds to their contents.
\* A revision is HEAD or a sha, followed by ~1 when back is 1.
Revision(name, back) == [ name |-> name, back |-> back ]

\* The place of the commit a revision names, or 0 when it names none.
CommitAt(repo, rev) ==
  LET at == IF rev.name = "HEAD" THEN Len(repo.commits)
            ELSE Max({0} \cup { n \in 1..Len(repo.commits) :
                                  repo.commits[n].sha = rev.name })
  IN  IF at <= rev.back THEN 0 ELSE at - rev.back

\* The paths in the order in which git lists them.
PathsInOrder == << PathATs, PathBTsx, PathDJson, PathCTxt, PathTCsv >>

PathRank(filePath) == CHOOSE n \in 1..Len(PathsInOrder) : PathsInOrder[n] = filePath

\* git show <rev>:<path>, which fails when the revision names no commit or
\* the commit holds no such path.
GitShow(repo, rev, filePath) ==
  LET at == CommitAt(repo, rev)
  IN  IF at = 0 \/ filePath \notin DOMAIN repo.commits[at].tree
        THEN [ threw |-> TRUE ]
        ELSE [ threw |-> FALSE, content |-> repo.commits[at].tree[filePath] ]

\* git show :<path>, of the index.
GitShowIndex(repo, filePath) ==
  IF filePath \notin DOMAIN repo.index
    THEN [ threw |-> TRUE ]
    ELSE [ threw |-> FALSE, content |-> repo.index[filePath] ]

\* The old path git pairs with a new path as a rename: the first path that the
\* old tree alone holds with the content of the new path, not yet paired.
\* (git also pairs contents that are alike; the contents of the repositories
\* below are alike only when they are equal.)
RenamedFrom(old, new, filePath, taken) ==
  LET from == { o \in (DOMAIN old \ DOMAIN new) \ taken : old[o] = new[filePath] }
  IN  IF filePath \in DOMAIN old \/ from = {} THEN <<>>
      ELSE << CHOOSE o \in from : \A x \in from : PathRank(o) <= PathRank(x) >>

\* The lines of git diff --name-status between two trees, each line as the
\* parts its tabs separate; the status code is text, as "R100" is read by its
\* first letter.
RECURSIVE NameStatusLoop(_, _, _, _, _)
NameStatusLoop(old, new, rest, taken, lines) ==
  IF rest = <<>>
    THEN SelectSeq(lines, LAMBDA l : ~(l[1] = <<"D">> /\ l[2] \in taken))
  ELSE
    LET p == Head(rest)
        from == IF p \in DOMAIN new THEN RenamedFrom(old, new, p, taken) ELSE <<>>
    IN  NameStatusLoop(old, new, Tail(rest),
          IF from # <<>> THEN taken \cup {from[1]} ELSE taken,
          CASE p \in DOMAIN old /\ p \in DOMAIN new ->
                 (IF old[p] # new[p] THEN Append(lines, << <<"M">>, p >>) ELSE lines)
            [] p \in DOMAIN old /\ p \notin DOMAIN new ->
                 Append(lines, << <<"D">>, p >>)
            [] p \notin DOMAIN old /\ p \in DOMAIN new ->
                 (IF from # <<>>
                    THEN Append(lines, << <<"R", "1", "0", "0">>, from[1], p >>)
                    ELSE Append(lines, << <<"A">>, p >>))
            [] OTHER -> lines)

GitDiffNameStatus(old, new) == NameStatusLoop(old, new, PathsInOrder, {}, <<>>)

\* git diff --name-status of the working directory against the index: the
\* paths of the index only, and no renames.
GitDiffWorking(repo) ==
  LET lines == [ n \in 1..Len(PathsInOrder) |->
                   LET p == PathsInOrder[n]
                   IN  CASE p \notin DOMAIN repo.index -> <<>>
                         [] p \notin DOMAIN repo.worktree -> << <<"D">>, p >>
                         [] repo.index[p] # repo.worktree[p] -> << <<"M">>, p >>
                         [] OTHER -> <<>> ]
  IN  SelectSeq(lines, LAMBDA l : l # <<>>)

\* git ls-files --others --exclude-standard: the files git does not track.
GitUntracked(repo) ==
  SelectSeq(PathsInOrder,
            LAMBDA p : p \in DOMAIN repo.worktree /\ p \notin DOMAIN repo.index)

\* diff-reader.ts, parseDiffNameStatus: a status code that is none of A, D, M
\* and does not start with R gives no file.
RECURSIVE ParseNameStatusLoop(_, _)
ParseNameStatusLoop(lines, files) ==
  IF lines = <<>> THEN files
  ELSE
    LET parts == Head(lines)
        statusCode == parts[1]
    IN  ParseNameStatusLoop(Tail(lines),
          CASE statusCode = <<"A">> ->
                 Append(files, [ filePath |-> parts[2], status |-> "added" ])
            [] statusCode = <<"D">> ->
                 Append(files, [ filePath |-> parts[2], status |-> "deleted" ])
            [] statusCode = <<"M">> ->
                 Append(files, [ filePath |-> parts[2], status |-> "modified" ])
            [] statusCode # <<>> /\ statusCode[1] = "R" ->
                 Append(files, [ filePath |-> parts[3], status |-> "renamed",
                                 oldFilePath |-> parts[2] ])
            [] OTHER -> files)

parseDiffNameStatus(output) == ParseNameStatusLoop(output, <<>>)

\* diff-reader.ts, shouldIgnore: the paths under .sem/.
StartsWith(s, prefix) ==
  Len(s) >= Len(prefix) /\ SubSeq(s, 1, Len(prefix)) = prefix

shouldIgnore(filePath) ==
  \/ StartsWith(filePath, <<".", "s", "e", "m", "/">>)
  \/ StartsWith(filePath, <<".", "s", "e", "m", "\\">>)

\* diff-reader.ts, readChangedFiles: the files of a scope, or the failure of
\* the git call (git diff of a revision that names no commit).
ReadFiles(files) ==
  [ threw |-> FALSE, files |-> SelectSeq(files, LAMBDA f : ~shouldIgnore(f.filePath)) ]

readChangedFiles(repo, scope) ==
  CASE scope.type = "working" ->
         ReadFiles(parseDiffNameStatus(GitDiffWorking(repo))
                     \o [ n \in 1..Len(GitUntracked(repo)) |->
                            [ filePath |-> GitUntracked(repo)[n], status |-> "added" ] ])
    [] scope.type = "staged" ->
         ReadFiles(parseDiffNameStatus(
           GitDiffNameStatus(IF repo.commits = <<>> THEN <<>>
                             ELSE repo.commits[Len(repo.commits)].tree, repo.index)))
    [] scope.type = "commit" ->
         IF CommitAt(repo, Revision(scope.sha, 1)) = 0
              \/ CommitAt(repo, Revision(scope.sha, 0)) = 0
           THEN [ threw |-> TRUE ]
           ELSE ReadFiles(parseDiffNameStatus(
                  GitDiffNameStatus(
                    repo.commits[CommitAt(repo, Revision(scope.sha, 1))].tree,
                    repo.commits[CommitAt(repo, Revision(scope.sha, 0))].tree)))
    [] scope.type = "range" ->
         IF CommitAt(repo, Revision(scope.from, 0)) = 0
              \/ CommitAt(repo, Revision(scope.to, 0)) = 0
           THEN [ threw |-> TRUE ]
           ELSE ReadFiles(parseDiffNameStatus(
                  GitDiffNameStatus(
                    repo.commits[CommitAt(repo, Revision(scope.from, 0))].tree,
                    repo.commits[CommitAt(repo, Revision(scope.to, 0))].tree)))

\* diff-reader.ts, getFileContent with a ref: the content, or undefined when
\* git show fails.
ContentAtRef(repo, filePath, rev) == GitShow(repo, rev, filePath)

\* diff-reader.ts, getFileContent without a ref: the file of the working
\* directory, or undefined when it cannot be read.
ContentOfWorkingCopy(repo, filePath) ==
  IF filePath \in DOMAIN repo.worktree
    THEN [ threw |-> FALSE, content |-> repo.worktree[filePath] ]
    ELSE [ threw |-> TRUE ]

\* file with the content a fetch found; a fetch that found none assigns
\* undefined.
WithContent(file, fieldName, fetched) ==
  IF fetched.threw THEN file ELSE (fieldName :> fetched.content) @@ file

\* The path whose before content a range reads.
PathBefore(file) == IF "oldFilePath" \in DOMAIN file THEN file.oldFilePath ELSE file.filePath

\* bridge.ts, populateContent: the after content unless the file is deleted,
\* the before content unless it is added, from where the scope says.
AfterContentOf(repo, file, scope) ==
  CASE scope.type = "working" -> ContentOfWorkingCopy(repo, file.filePath)
    [] scope.type = "staged" ->
         (IF GitShowIndex(repo, file.filePath).threw
            THEN ContentOfWorkingCopy(repo, file.filePath)
            ELSE GitShowIndex(repo, file.filePath))
    [] scope.type = "commit" -> ContentAtRef(repo, file.filePath, Revision(scope.sha, 0))
    [] scope.type = "range" -> ContentAtRef(repo, file.filePath, Revision(scope.to, 0))

BeforeContentOf(repo, file, scope) ==
  CASE scope.type = "working" -> ContentAtRef(repo, file.filePath, Revision("HEAD", 0))
    [] scope.type = "staged" -> ContentAtRef(repo, file.filePath, Revision("HEAD", 0))
    [] scope.type = "commit" -> ContentAtRef(repo, file.filePath, Revision(scope.sha, 1))
    [] scope.type = "range" -> ContentAtRef(repo, PathBefore(file), Revision(scope.from, 0))

populateContent(repo, file, scope) ==
  LET withAfter == IF file.status # "deleted"
                     THEN WithContent(file, "afterContent", AfterContentOf(repo, file, scope))
                     ELSE file
  IN  IF file.status # "added"
        THEN WithContent(withAfter, "beforeContent", BeforeContentOf(repo, file, scope))
        ELSE withAfter

\* bridge.ts, getChangedFiles.
Populated(repo, read, scope) ==
  IF read.threw THEN read
  ELSE [ threw |-> FALSE,
         files |-> [ n \in 1..Len(read.files) |->
                       populateContent(repo, read.files[n], scope) ] ]

getChangedFiles(repo, scope) == Populated(repo, readChangedFiles(repo, scope), scope)

\* bridge.ts, getLog: the newest commits first, at most limit of them.
CommitInfo(commit) == [ sha |-> commit.sha, author |-> commit.author ]

getLog(repo, limit) ==
  LET n == IF limit < Len(repo.commits) THEN limit ELSE Len(repo.commits)
  IN  [ k \in 1..n |-> CommitInfo(repo.commits[Len(repo.commits) + 1 - k]) ]

-----------------------------------------------------------------------------
(* cli/commands/log.ts: logCommand *)

\* The trees of the repositories that are logged: a.ts with the function f in
\* one of two versions or without it, b.tsx with f or without it.
LogTrees ==
  { [ p \in S |-> IF p = PathATs THEN c ELSE ContentABCD ] :
      S \in SUBSET {PathATs, PathBTsx}, c \in {ContentABCD, ContentABCDWide} }

Shas == << "c1", "c2", "c3", "c4" >>

\* The repository of a list of trees: commit n has the n-th sha, and the index
\* and the working directory hold the tree of HEAD.
RepositoryOf(trees) ==
  [ commits  |-> [ n \in 1..Len(trees) |->
                     [ sha |-> Shas[n], author |-> "ann", tree |-> trees[n] ] ],
    index    |-> trees[Len(trees)],
    worktree |-> trees[Len(trees)] ]

LogRepositories ==
  { RepositoryOf(trees) : trees \in SeqsUpTo(LogTrees, MaxCommits) \ {<<>>} }

\* sem log -n <count> [--store], in a repository where sem init was run
\* (exists) or was not.
LogInit ==
  /\ repository \in LogRepositories
  /\ command \in [ name : {"log"}, pc : {"start"}, count : 1..2, store : BOOLEAN,
                   commits : {<<>>}, i : {0}, db : {"null"}, passed : {<<>>} ]
  /\ database \in [ exists : BOOLEAN, connections : {0}, changes : {<<>>},
                    clock : {0} ]
  /\ registration = <<>>
  /\ extraction = <<>>
  /\ fileChanges = <<>>
  /\ SemDiff
  /\ FreshProcess

\* Lines 28-41: the commits of git log, and the database when its file exists.
LogStart ==
  /\ command.name = "log" /\ command.pc = "start"
  /\ command' = [ command EXCEPT
                    !.pc = "loop", !.i = 1,
                    !.commits = getLog(repository, command.count),
                    !.db = IF database.exists THEN "open" ELSE "null" ]
  /\ database' = [ database EXCEPT
                     !.connections = IF database.exists THEN @ + 1 ELSE @ ]
  /\ UNCHANGED <<matcherVars, diffVars, extraction, registration, repository>>

\* Lines 56-60 of one turn of the loop: the diff of the commit, stored when
\* --store was given and there is a database.  A diff that throws ends the
\* command where it is.
LoggedDiff(files, commit, run) ==
  /\ fileChanges' = files
  /\ invocation' = [ invocation EXCEPT !.commitSha = commit.sha,
                                       !.author = commit.author ]
  /\ results' = Append(results, IF run.threw THEN [ threw |-> TRUE ] ELSE run.result)
  /\ origins' = run.origins
  /\ Parser' = run.Parser
  /\ grammarCache' = run.grammarCache
  /\ IF run.threw
       THEN /\ command' = [ command EXCEPT !.pc = "thrown" ]
            /\ UNCHANGED database
       ELSE IF command.store /\ command.db = "open"
         THEN /\ command' = [ command EXCEPT
                                !.i = @ + 1,
                                !.passed = @ \o run.result.changes ]
              /\ database' = [ database EXCEPT
                                 !.changes = insertChanges(@, run.result.changes,
                                                           database.clock + 1),
                                 !.clock = @ + 1 ]
         ELSE /\ command' = [ command EXCEPT !.i = @ + 1 ]
              /\ UNCHANGED database

\* Lines 51-54: the files of the commit; a git call that fails ends the
\* command where it is.
LoggedCommit(commit, read) ==
  IF read.threw
    THEN /\ command' = [ command EXCEPT !.pc = "thrown" ]
         /\ UNCHANGED <<database, fileChanges, invocation, results, origins,
                        Parser, grammarCache>>
    ELSE LoggedDiff(read.files, commit,
                    computeSemanticDiff(read.files, invocation.registry, commit.sha,
                                        commit.author, Parser, grammarCache, installed))

\* One turn of the loop of lines 43-84.
LogCommit ==
  /\ command.name = "log" /\ command.pc = "loop"
  /\ command.i <= Len(command.commits)
  /\ LoggedCommit(command.commits[command.i],
                  getChangedFiles(repository,
                                  [ type |-> "commit",
                                    sha |-> command.commits[command.i].sha ]))
  /\ UNCHANGED <<matcherVars, installed, outputs, extraction, registration, repository>>

\* Line 86: db?.close().
LogClose ==
  /\ command.name = "log" /\ command.pc = "loop"
  /\ command.i > Len(command.commits)
  /\ command' = [ command EXCEPT !.pc = "done",
                                 !.db = IF @ = "open" THEN "closed" ELSE @ ]
  /\ database' = [ database EXCEPT
                     !.connections = IF command.db = "open" THEN @ - 1 ELSE @ ]
  /\ UNCHANGED <<matcherVars, diffVars, extraction, registration, repository>>

LogNext == LogStart \/ LogCommit \/ LogClose

LogSpec == LogInit /\ [][LogNext]_vars

-----------------------------------------------------------------------------
(* cli/commands/log.ts: blameCommand *)

\* The repositories that hold one file: the commits have it in one of its
\* versions, or do not have it, and the working directory has it as HEAD has
\* it, in its first version, or not at all.
VersionsOf(versions) == { versions[n] : n \in 1..Len(versions) }

TreesOfFile(filePath, versions) ==
  { <<>> } \cup { [ p \in {filePath} |-> c ] : c \in VersionsOf(versions) }

RepositoriesOfFile(filePath, versions) ==
  { [ RepositoryOf(trees) EXCEPT !.worktree = IF w = 0 THEN @
                                              ELSE IF w = 1 THEN <<>>
                                              ELSE [ p \in {filePath} |-> versions[1] ] ] :
      trees \in SeqsUpTo(TreesOfFile(filePath, versions), MaxCommits) \ {<<>>},
      w \in 0..2 }

\* The versions of d.json: an object with the keys a and b, the same with
\* another value of a, the same without b, a text that is cut, and the empty
\* text.
JsonVersions == << JsonPairTwo, JsonPair, JsonFlat, JsonCut, <<>> >>

\* The versions of c.txt: one line, two lines, and the empty text.
TextVersions == << TextOfLines(1), TextOfLines(2), <<>> >>

\* Where blameCommand and historyCommand are called, and for which file.
FileHistories ==
  { [ repository |-> r, filePath |-> PathDJson ] :
      r \in RepositoriesOfFile(PathDJson, JsonVersions) }
  \cup
  { [ repository |-> r, filePath |-> PathCTxt ] :
      r \in RepositoriesOfFile(PathCTxt, TextVersions) }

\* sem blame <filePath> --depth <depth>
BlameInit ==
  /\ \E call \in FileHistories, depth \in {2, MaxCommits} :
       /\ repository = call.repository
       /\ command = [ name |-> "blame", pc |-> "start", filePath |-> call.filePath,
                      depth |-> depth, commits |-> <<>>, i |-> 0,
                      currentEntities |-> <<>>, blameMap |-> <<>>,
                      unresolvedIds |-> {} ]
  /\ database = <<>>
  /\ registration = <<>>
  /\ extraction = <<>>
  /\ fileChanges = <<>>
  /\ SemDiff
  /\ FreshProcess

\* The plugin of blameCommand, line 129.
BlamePlugin == getPlugin(invocation.registry, command.filePath).plugin

\* What an extraction leaves in the module variables of the code plugin.
ExtractedBy(got) ==
  /\ Parser' = got.Parser
  /\ grammarCache' = got.grammarCache

\* Lines 151-159: the entities of the file as it is in the working directory.
\* The command ends when there are none, and in an exception when the plugin
\* throws.
BlameStarted(got) ==
  /\ ExtractedBy(got)
  /\ command' =
       IF got.threw THEN [ command EXCEPT !.pc = "thrown" ]
       ELSE IF got.entities = <<>> THEN [ command EXCEPT !.pc = "done" ]
       ELSE [ command EXCEPT
                !.pc = "walk", !.i = 1,
                !.commits = getLog(repository, command.depth),
                !.currentEntities = got.entities,
                !.unresolvedIds = { got.entities[n].id : n \in 1..Len(got.entities) } ]

\* Lines 115-159.  Without commits the command ends, and without a plugin or
\* without the file in the working directory the process exits.
BlameStart ==
  /\ command.name = "blame" /\ command.pc = "start"
  /\ IF ~getPlugin(invocation.registry, command.filePath).found
       THEN /\ command' = [ command EXCEPT !.pc = "exit" ]
            /\ UNCHANGED <<Parser, grammarCache>>
       ELSE IF getLog(repository, command.depth) = <<>>
       THEN /\ command' = [ command EXCEPT !.pc = "done" ]
            /\ UNCHANGED <<Parser, grammarCache>>
       ELSE IF ContentOfWorkingCopy(repository, command.filePath).threw
         THEN /\ command' = [ command EXCEPT !.pc = "exit" ]
              /\ UNCHANGED <<Parser, grammarCache>>
         ELSE BlameStarted(
                PluginExtractEntities(BlamePlugin,
                  ContentOfWorkingCopy(repository, command.filePath).content,
                  command.filePath, Parser, grammarCache, installed))
  /\ UNCHANGED <<fileChanges, invocation, installed, results, origins, outputs>>
  /\ UNCHANGED <<matcherVars, extraction, storeVars, repository>>

\* The entity of a list that a Map by id gives for an id: the last one.
EntityById(list, id) == list[MapGet(list, id)]

\* Line 217-229: the entry of the blame map.
BlameEntry(entityAtCommit, commit, filePath) ==
  [ entityId   |-> entityAtCommit.id,
    entityType |-> entityAtCommit.entityType,
    entityName |-> entityAtCommit.name,
    filePath   |-> filePath,
    author     |-> commit.author,
    commitSha  |-> commit.sha,
    startLine  |-> entityAtCommit.startLine,
    endLine    |-> entityAtCommit.endLine ]

\* blameMap.set(entityId, entry): the entry of the id is replaced where it
\* is, a new id comes last.
BlameMapSet(blameMap, entry) ==
  IF \E n \in 1..Len(blameMap) : blameMap[n].entityId = entry.entityId
    THEN [ n \in 1..Len(blameMap) |->
             IF blameMap[n].entityId = entry.entityId THEN entry ELSE blameMap[n] ]
    ELSE Append(blameMap, entry)

\* Without unresolvedIds.delete(entityId).
StaysUnresolved(unresolvedIds, entityId) == unresolvedIds

\* Line 230: unresolvedIds.delete(entityId).
Resolved(unresolvedIds, entityId) == unresolvedIds \ {entityId}

\* Lines 205-232: the loop over the unresolved ids, in the order of the set,
\* which is the order of the entities of the file.
RECURSIVE BlameIds(_, _, _, _, _, _, _)
BlameIds(ids, st, entitiesAtCommit, entitiesBefore, commit, hasNext, filePath) ==
  IF ids = <<>> THEN st
  ELSE
    LET entityId == Head(ids)
        isNew == ~MapHas(entitiesBefore, entityId)
        isModified ==
          /\ MapHas(entitiesBefore, entityId)
          /\ EntityById(entitiesBefore, entityId).contentHash
               # EntityById(entitiesAtCommit, entityId).contentHash
    IN  BlameIds(Tail(ids),
          IF /\ entityId \in st.unresolvedIds
             /\ MapHas(entitiesAtCommit, entityId)
             /\ (isNew \/ isModified \/ ~hasNext)
            THEN [ blameMap |-> BlameMapSet(st.blameMap,
                                  BlameEntry(EntityById(entitiesAtCommit, entityId),
                                             commit, filePath)),
                   unresolvedIds |-> Resolved(st.unresolvedIds, entityId) ]
            ELSE st,
          entitiesAtCommit, entitiesBefore, commit, hasNext, filePath)

\* Lines 193-233, with the entities of the next-older commit: none when its
\* content is undefined or empty, or when the plugin throws.
BlamedAgainst(atCommit, gotBefore) ==
  /\ ExtractedBy(gotBefore)
  /\ LET st == BlameIds(MapKeys(command.currentEntities),
                        [ blameMap |-> command.blameMap,
                          unresolvedIds |-> command.unresolvedIds ],
                        atCommit,
                        IF gotBefore.threw THEN <<>> ELSE gotBefore.entities,
                        command.commits[command.i],
                        command.i < Len(command.commits), command.filePath)
     IN  command' = [ command EXCEPT !.i = @ + 1,
                                     !.blameMap = st.blameMap,
                                     !.unresolvedIds = st.unresolvedIds ]

\* Lines 186-200: the entities at the commit; the turn ends when the plugin
\* throws.
BlamedAt(gotAt, contentBefore) ==
  IF gotAt.threw
    THEN /\ ExtractedBy(gotAt)
         /\ command' = [ command EXCEPT !.i = @ + 1 ]
    ELSE BlamedAgainst(gotAt.entities,
           IF contentBefore.threw \/ contentBefore.content = <<>>
             THEN [ threw |-> FALSE, entities |-> <<>>, Parser |-> gotAt.Parser,
                    grammarCache |-> gotAt.grammarCache ]
             ELSE PluginExtractEntities(BlamePlugin, contentBefore.content,
                                        command.filePath, gotAt.Parser,
                                        gotAt.grammarCache, installed))

\* Lines 165-184: the content at the commit and at the next-older commit of
\* the walk; the turn ends when the first is not there or is empty.
BlameContents(contentAtCommit, contentBefore) ==
  IF contentAtCommit.threw \/ contentAtCommit.content = <<>>
    THEN /\ command' = [ command EXCEPT !.i = @ + 1 ]
         /\ UNCHANGED <<Parser, grammarCache>>
    ELSE BlamedAt(PluginExtractEntities(BlamePlugin, contentAtCommit.content,
                                        command.filePath, Parser, grammarCache,
                                        installed),
                  contentBefore)

\* One turn of the loop of lines 161-233.
BlameCommit ==
  /\ command.name = "blame" /\ command.pc = "walk"
  /\ command.i <= Len(command.commits) /\ command.unresolvedIds # {}
  /\ BlameContents(
       GitShow(repository, Revision(command.commits[command.i].sha, 0),
               command.filePath),
       IF command.i < Len(command.commits)
         THEN GitShow(repository, Revision(command.commits[command.i + 1].sha, 0),
                      command.filePath)
         ELSE [ threw |-> TRUE ])
  /\ UNCHANGED <<fileChanges, invocation, installed, results, origins, outputs>>
  /\ UNCHANGED <<matcherVars, extraction, storeVars, repository>>

\* Lines 235-243: the entries of the entities of the file, in their order.
BlameEntries(currentEntities, blameMap) ==
  LET found == SelectSeq(currentEntities,
                 LAMBDA e : \E n \in 1..Len(blameMap) : blameMap[n].entityId = e.id)
  IN  [ k \in 1..Len(found) |->
          blameMap[CHOOSE n \in 1..Len(blameMap) : blameMap[n].entityId = found[k].id] ]

\* The end of the loop, and the output.
BlameOutput ==
  /\ command.name = "blame" /\ command.pc = "walk"
  /\ command.i > Len(command.commits) \/ command.unresolvedIds = {}
  /\ command' = [ command EXCEPT !.pc = "done" ]
  /\ outputs' = Append(outputs, BlameEntries(command.currentEntities, command.blameMap))
  /\ UNCHANGED <<fileChanges, invocation, installed, Parser, grammarCache, results,
                 origins>>
  /\ UNCHANGED <<matcherVars, extraction, storeVars, repository>>

BlameNext == BlameStart \/ BlameCommit \/ BlameOutput

BlameSpec == BlameInit /\ [][BlameNext]_vars

-----------------------------------------------------------------------------
(* cli/commands/history.ts: historyCommand *)

\* The entities that are asked for: the properties a and b of d.json, and the
\* chunks of one and of two lines of doc/c.txt.
EntityNamesOf(filePath) ==
  IF filePath = PathDJson THEN { <<"a">>, <<"b">> }
  ELSE { <<"lines ", 1, "-", 1>>, <<"lines ", 1, "-", 2>> }

\* sem history <file>::<name> and sem history <name>, with --depth <depth>;
\* without the file in the query filePath is the empty path until the walk
\* finds it.
HistoryInit ==
  /\ \E call \in FileHistories, depth \in {2, MaxCommits}, named \in BOOLEAN :
       /\ call.repository.worktree = call.repository.index
       /\ repository = call.repository
       /\ \E entityName \in EntityNamesOf(call.filePath) :
            command = [ name |-> "history", pc |-> "start",
                        filePath |-> IF named THEN call.filePath ELSE <<>>,
                        entityName |-> entityName, depth |-> depth,
                        commits |-> <<>>, i |-> 0, timeline |-> <<>>,
                        previousEntity |-> <<>> ]
  /\ database = <<>>
  /\ registration = <<>>
  /\ extraction = <<>>
  /\ fileChanges = <<>>
  /\ SemDiff
  /\ FreshProcess

\* Lines 47-54: the commits of the walk.
HistoryStart ==
  /\ command.name = "history" /\ command.pc = "start"
  /\ command' = IF getLog(repository, command.depth) = <<>>
                  THEN [ command EXCEPT !.pc = "done" ]
                  ELSE [ command EXCEPT !.pc = "walk", !.i = 1,
                                        !.commits = getLog(repository, command.depth) ]
  /\ UNCHANGED <<matcherVars, diffVars, extraction, storeVars, repository>>

\* entities.find(e => e.name === entityName): the first of that name, as a
\* list of one entity, or the empty list.
FindByName(entities, entityName) ==
  LET at == { n \in 1..Len(entities) : entities[n].name = entityName }
  IN  IF at = {} THEN <<>> ELSE << entities[Min(at)] >>

\* Lines 63-79: the search of the file among the changed files of the commit,
\* from the file at the head of the list on; st holds the file path that was
\* found, or the empty path, and the module variables of the code plugin.
RECURSIVE HistorySearch(_, _, _)
HistorySearch(files, entityName, st) ==
  IF files = <<>> \/ st.filePath # <<>> THEN st
  ELSE
    LET file == Head(files)
        content == IF "afterContent" \in DOMAIN file THEN file.afterContent
                   ELSE IF "beforeContent" \in DOMAIN file THEN file.beforeContent
                   ELSE <<>>
        found == getPlugin(invocation.registry, file.filePath)
        got == PluginExtractEntities(found.plugin, content, file.filePath,
                                     st.Parser, st.grammarCache, installed)
    IN  HistorySearch(Tail(files), entityName,
          IF content = <<>> \/ ~found.found THEN st
          ELSE [ filePath |-> IF ~got.threw /\ FindByName(got.entities, entityName) # <<>>
                                THEN file.filePath ELSE <<>>,
                 Parser |-> got.Parser, grammarCache |-> got.grammarCache ])

\* The entry of the timeline, lines 90-97, 116-123, 130-148.
HistoryEntry(commit, changeType, entity) ==
  WithOptional([ commitSha |-> commit.sha, author |-> commit.author,
                 changeType |-> changeType ],
               "content", entity # <<>>, IF entity # <<>> THEN entity[1].content ELSE <<>>)

\* Lines 89-100 and 115-126: the entity is not at the commit.
HistoryAbsent(filePath) ==
  command' = [ command EXCEPT
                 !.i = @ + 1, !.filePath = filePath,
                 !.timeline = IF command.previousEntity # <<>>
                                THEN Append(@, HistoryEntry(command.commits[command.i],
                                                            "deleted", <<>>))
                                ELSE @,
                 !.previousEntity = <<>> ]

\* Lines 100-111: the turn ends and leaves the timeline as it is.
HistorySkipped(filePath) ==
  command' = [ command EXCEPT !.i = @ + 1, !.filePath = filePath ]

\* Lines 129-151: the entity is at the commit.
HistoryPresent(filePath, entity) ==
  command' = [ command EXCEPT
                 !.i = @ + 1, !.filePath = filePath,
                 !.timeline =
                   IF command.previousEntity = <<>>
                     THEN Append(@, HistoryEntry(command.commits[command.i],
                                                 "added", entity))
                   ELSE IF command.previousEntity[1].contentHash # entity[1].contentHash
                     THEN Append(@, HistoryEntry(command.commits[command.i],
                                                 "modified", entity))
                   ELSE @,
                 !.previousEntity = entity ]

\* Lines 106-151, from what the plugin extracted at the commit.
HistoryExtracted(filePath, got) ==
  /\ ExtractedBy(got)
  /\ IF got.threw THEN HistorySkipped(filePath)
     ELSE IF FindByName(got.entities, command.entityName) = <<>>
       THEN HistoryAbsent(filePath)
       ELSE HistoryPresent(filePath, FindByName(got.entities, command.entityName))

\* Lines 83-111, with the file path known and the module variables as the
\* search left them.
HistoryOfFile(st, contentAtCommit) ==
  IF contentAtCommit.threw
    THEN /\ HistoryAbsent(st.filePath)
         /\ ExtractedBy(st)
  ELSE IF ~getPlugin(invocation.registry, st.filePath).found
            \/ contentAtCommit.content = <<>>
    THEN /\ HistorySkipped(st.filePath)
         /\ ExtractedBy(st)
  ELSE HistoryExtracted(st.filePath,
         PluginExtractEntities(getPlugin(invocation.registry, st.filePath).plugin,
                               contentAtCommit.content, st.filePath, st.Parser,
                               st.grammarCache, installed))

\* Lines 60-81: the file path after the search, or the end of the turn when
\* it is still not known.
HistorySearched(st) ==
  IF st.filePath = <<>>
    THEN /\ HistorySkipped(<<>>)
         /\ ExtractedBy(st)
    ELSE HistoryOfFile(st, GitShow(repository,
                                   Revision(command.commits[command.i].sha, 0),
                                   st.filePath))

\* Line 62: the changed files of the commit; a git call that fails ends the
\* command in an exception.
HistoryChanged(read) ==
  IF read.threw
    THEN /\ command' = [ command EXCEPT !.pc = "thrown" ]
         /\ UNCHANGED <<Parser, grammarCache>>
    ELSE HistorySearched(
           HistorySearch(read.files, command.entityName,
                         [ filePath |-> <<>>, Parser |-> Parser,
                           grammarCache |-> grammarCache ]))

\* One turn of the loop of lines 56-152.
HistoryCommit ==
  /\ command.name = "history" /\ command.pc = "walk"
  /\ command.i <= Len(command.commits)
  /\ IF command.filePath = <<>>
       THEN HistoryChanged(getChangedFiles(repository,
                             [ type |-> "commit",
                               sha |-> command.commits[command.i].sha ]))
       ELSE HistorySearched([ filePath |-> command.filePath, Parser |-> Parser,
                              grammarCache |-> grammarCache ])
  /\ UNCHANGED <<fileChanges, invocation, installed, results, origins, outputs>>
  /\ UNCHANGED <<matcherVars, extraction, storeVars, repository>>

\* Lines 154-165: the timeline, the oldest entry first.
HistoryOutput ==
  /\ command.name = "history" /\ command.pc = "walk"
  /\ command.i > Len(command.commits)
  /\ command' = [ command EXCEPT
                    !.pc = "done",
                    !.timeline = [ n \in 1..Len(@) |-> @[Len(@) + 1 - n] ] ]
  /\ outputs' = Append(outputs, [ n \in 1..Len(command.timeline) |->
                                    command.timeline[Len(command.timeline) + 1 - n] ])
  /\ UNCHANGED <<fileChanges, invocation, installed, Parser, grammarCache, results,
                 origins>>
  /\ UNCHANGED <<matcherVars, extraction, storeVars, repository>>

HistoryNext == HistoryStart \/ HistoryCommit \/ HistoryOutput

HistorySpec == HistoryInit /\ [][HistoryNext]_vars

-----------------------------------------------------------------------------
(* Calls of GitBridge.getChangedFiles *)

\* The trees of the repositories the bridge reads: a.ts with the function f,
\* the same file renamed to b.TSX, a.ts with the class, and no file.
BridgeTrees ==
  { [ p \in {PathATs} |-> ContentABCD ], [ p \in {PathBTsx} |-> ContentABCD ],
    [ p \in {PathATs} |-> SourceExportedClass ], <<>> }

\* The repositories: up to MaxCommits commits, an index and a working
\* directory, each with one of the trees.
BridgeRepositories ==
  { [ RepositoryOf(trees) EXCEPT !.index = index, !.worktree = worktree ] :
      trees \in SeqsUpTo(BridgeTrees, MaxCommits) \ {<<>>},
      index \in BridgeTrees, worktree \in BridgeTrees }

\* The scopes of a repository: the working directory, the index, one of the
\* commits, and a range from a commit to a later one.
ScopesOf(repo) ==
  { [ type |-> "working" ], [ type |-> "staged" ] }
    \cup { [ type |-> "commit", sha |-> repo.commits[n].sha ] :
             n \in 1..Len(repo.commits) }
    \cup { [ type |-> "range", from |-> repo.commits[n].sha,
             to |-> repo.commits[m].sha ] :
             n \in 1..Len(repo.commits), m \in 1..Len(repo.commits) }

BridgeInit ==
  /\ repository \in BridgeRepositories
  /\ command = [ name |-> "getChangedFiles", returned |-> FALSE ]
  /\ database = <<>>
  /\ registration = <<>>
  /\ extraction = <<>>
  /\ fileChanges = <<>>
  /\ SemDiff
  /\ FreshProcess

\* git.getChangedFiles(scope)
GetChangedFiles ==
  /\ command.name = "getChangedFiles" /\ ~command.returned
  /\ \E scope \in ScopesOf(repository) :
       command' = [ name |-> "getChangedFiles", returned |-> TRUE, scope |-> scope,
                    read |-> getChangedFiles(repository, scope) ]
  /\ UNCHANGED <<matcherVars, diffVars, extraction, storeVars, repository>>

BridgeNext == GetChangedFiles

BridgeSpec == BridgeInit /\ [][BridgeNext]_vars

-----------------------------------------------------------------------------
(* cli/commands/watch.ts: watchCommand *)

\* opts.debounce, in ticks of the clock.
DebounceMs == 2

\* The file events the watcher is told of, and the ticks of the clock.
MaxEvents == 2
MaxClock == 5

\* bridge.ts, detectScope: staged when the index differs from HEAD, working
\* when the working directory differs from the index or holds an untracked
\* file, else the commit of HEAD, and working when there is no commit.
detectScope(repo) ==
  LET head == IF repo.commits = <<>> THEN <<>>
              ELSE repo.commits[Len(repo.commits)].tree
  IN  IF GitDiffNameStatus(head, repo.index) # <<>> THEN [ type |-> "staged" ]
      ELSE IF GitDiffWorking(repo) # <<>> \/ GitUntracked(repo) # <<>>
        THEN [ type |-> "working" ]
      ELSE IF repo.commits = <<>> THEN [ type |-> "working" ]
      ELSE [ type |-> "commit", sha |-> repo.commits[Len(repo.commits)].sha ]

\* filename.includes(sub)
Includes(s, sub) ==
  \E i \in 1..(Len(s) - Len(sub) + 1) : SubSeq(s, i, i + Len(sub) - 1) = sub

\* Lines 88-92: the events the watcher passes over.
WatchSkips(filename) ==
  \/ filename = <<>>
  \/ StartsWith(filename, <<".", "g", "i", "t">>)
  \/ StartsWith(filename, <<".", "s", "e", "m">>)
  \/ Includes(filename, <<"n", "o", "d", "e", "_", "m", "o", "d", "u", "l", "e", "s">>)

PathGitIndex == <<".", "g", "i", "t", "/", "i", "n", "d", "e", "x">>

\* Lines 53-63: JSON.stringify of the timestamp, the summary and the changes.
WatchJson(result, now) ==
  << <<"timestamp", now>>,
     <<"summary",
       << <<"files", result.fileCount>>,
          <<"added", result.addedCount>>,
          <<"modified", result.modifiedCount>>,
          <<"deleted", result.deletedCount>>,
          <<"total", Len(result.changes)>> >> >>,
     <<"changes",
       [ i \in 1..Len(result.changes) |-> JsonChange(result.changes[i]) ]>> >>

OutputClean == <<"c", "l", "e", "a", "n">>

\* The versions of a.ts in the working directory: as committed, rewritten,
\* and removed.
WatchTrees ==
  { [ p \in {PathATs} |-> ContentABCD ], [ p \in {PathATs} |-> ContentABCDE ], <<>> }

\* A call of runDiff that has begun: it waits for detectScope.
RunBegun(setBy) ==
  [ pc |-> "detectScope", setBy |-> setBy, scope |-> <<>>, read |-> <<>> ]

\* sem watch --format json in a repository of one commit that holds a.ts; the
\* first runDiff has begun (line 84) and the watcher is not yet there.
WatchInit ==
  /\ repository \in
       { [ RepositoryOf(<< [ p \in {PathATs} |-> ContentABCD ] >>)
             EXCEPT !.worktree = w ] : w \in WatchTrees }
  /\ command = [ name |-> "watch", pc |-> "initial", now |-> 0,
                 timer |-> [ set |-> FALSE, due |-> 0, by |-> 0 ],
                 lastOutput |-> <<>>, runs |-> << RunBegun(0) >>,
                 printed |-> <<>>, events |-> <<>>, skipped |-> 0 ]
  /\ database = <<>>
  /\ registration = <<>>
  /\ extraction = <<>>
  /\ fileChanges = <<>>
  /\ SemDiff
  /\ FreshProcess

\* A file of the working directory is written or removed and the callback of
\* the watcher runs, lines 87-96: the timer is cleared and set again.
WatchEvent ==
  /\ command.name = "watch" /\ command.pc = "watching"
  /\ Len(command.events) < MaxEvents
  /\ ~WatchSkips(PathATs)
  /\ \E w \in WatchTrees \ {repository.worktree} :
       repository' = [ repository EXCEPT !.worktree = w ]
  /\ command' = [ command EXCEPT
                    !.events = Append(@, command.now),
                    !.timer = [ set |-> TRUE, due |-> command.now + DebounceMs,
                                by |-> Len(command.events) + 1 ] ]
  /\ UNCHANGED <<matcherVars, diffVars, extraction, storeVars>>

\* git add: the index takes the working directory; the event names a file
\* under .git, which the callback passes over.
WatchSkippedEvent ==
  /\ command.name = "watch" /\ command.pc = "watching"
  /\ command.skipped < 1
  /\ WatchSkips(PathGitIndex)
  /\ repository' = [ repository EXCEPT !.index = repository.worktree ]
  /\ command' = [ command EXCEPT !.skipped = @ + 1 ]
  /\ UNCHANGED <<matcherVars, diffVars, extraction, storeVars>>

\* Time passes, unless the timer is due.
Tick ==
  /\ command.name = "watch"
  /\ command.now < MaxClock
  /\ ~(command.timer.set /\ command.timer.due <= command.now)
  /\ command' = [ command EXCEPT !.now = @ + 1 ]
  /\ UNCHANGED <<matcherVars, diffVars, extraction, storeVars, repository>>

\* The timer fires: runDiff is called and runs up to its first await.
TimerFires ==
  /\ command.name = "watch"
  /\ command.timer.set /\ command.timer.due <= command.now
  /\ command' = [ command EXCEPT
                    !.timer = [ @ EXCEPT !.set = FALSE ],
                    !.runs = Append(@, RunBegun(command.timer.by)) ]
  /\ UNCHANGED <<matcherVars, diffVars, extraction, storeVars, repository>>

\* Line 36 of a call of runDiff: git answers detectScope.
ScopeDetected ==
  /\ command.name = "watch"
  /\ \E r \in 1..Len(command.runs) :
       /\ command.runs[r].pc = "detectScope"
       /\ command' = [ command EXCEPT
                         !.runs[r].pc = "getChangedFiles",
                         !.runs[r].scope = detectScope(repository) ]
  /\ UNCHANGED <<matcherVars, diffVars, extraction, storeVars, repository>>

\* Line 37: git reads the files of the scope; the promise of getChangedFiles
\* is settled later.
FilesRead ==
  /\ command.name = "watch"
  /\ \E r \in 1..Len(command.runs) :
       /\ command.runs[r].pc = "getChangedFiles"
       /\ command' = [ command EXCEPT
                         !.runs[r].pc = "settled",
                         !.runs[r].read = getChangedFiles(repository,
                                                          command.runs[r].scope) ]
  /\ UNCHANGED <<matcherVars, diffVars, extraction, storeVars, repository>>

\* What a call of runDiff leaves when it ends: its output, when it prints
\* one, is printed and kept in lastOutput; the first call over, the watcher
\* is set up.
RunEnded(r, prints, output) ==
  command' = [ command EXCEPT
                 !.runs[r].pc = "done",
                 !.pc = IF r = 1 THEN "watching" ELSE @,
                 !.lastOutput = IF prints THEN output ELSE @,
                 !.printed = IF prints THEN Append(@, [ run |-> r, output |-> output ])
                             ELSE @ ]

\* Lines 50-68 with the result of computeSemanticDiff; an exception is caught
\* by line 78.
RunDiffed(r, files, run) ==
  /\ fileChanges' = files
  /\ results' = Append(results, IF run.threw THEN [ threw |-> TRUE ] ELSE run.result)
  /\ origins' = run.origins
  /\ Parser' = run.Parser
  /\ grammarCache' = run.grammarCache
  /\ IF run.threw THEN RunEnded(r, FALSE, <<>>)
     ELSE RunEnded(r, WatchJson(run.result, command.now) # command.lastOutput,
                   WatchJson(run.result, command.now))

\* Lines 39-77 of a call of runDiff, after getChangedFiles.
RunResumed(r, read) ==
  IF read.threw
    THEN /\ RunEnded(r, FALSE, <<>>)
         /\ UNCHANGED <<fileChanges, results, origins, Parser, grammarCache>>
  ELSE IF Len(read.files) = 0
    THEN /\ RunEnded(r, command.lastOutput # OutputClean, OutputClean)
         /\ UNCHANGED <<fileChanges, results, origins, Parser, grammarCache>>
  ELSE RunDiffed(r, read.files,
                 computeSemanticDiff(read.files, invocation.registry, Undefined,
                                     Undefined, Parser, grammarCache, installed))

RunResumes ==
  /\ command.name = "watch"
  /\ \E r \in 1..Len(command.runs) :
       /\ command.runs[r].pc = "settled"
       /\ RunResumed(r, command.runs[r].read)
  /\ UNCHANGED <<matcherVars, invocation, installed, outputs, extraction, storeVars,
                 repository>>

WatchNext ==
  \/ WatchEvent \/ WatchSkippedEvent \/ Tick \/ TimerFires
  \/ ScopeDetected \/ FilesRead \/ RunResumes

WatchSpec == WatchInit /\ [][WatchNext]_vars

-----------------------------------------------------------------------------
(* What the claims speak of *)

Done == pc = "done"

BeforeIds == { before[i].id : i \in 1..Len(before) }
AfterIds  == { after[i].id : i \in 1..Len(after) }

\* The changes pushed by a phase (1, 2, 3, or 4 for the terminal phase).
PushedBy(phase) == { k \in 1..Len(sides) : sides[k].phase = phase }

\* The positions whose id the other list does not have: phase 1 leaves them.
LeftByPhase1Before == { i \in 1..Len(before) : before[i].id \notin AfterIds }
LeftByPhase1After  == { i \in 1..Len(after) : after[i].id \notin BeforeIds }

\* The positions phase 2 leaves: left by phase 1 and not paired by phase 2.
LeftByPhase2Before ==
  { i \in LeftByPhase1Before : \A k \in PushedBy(2) : sides[k].before # i }
LeftByPhase2After ==
  { i \in LeftByPhase1After : \A k \in PushedBy(2) : sides[k].after # i }


DistinctIds(list) ==
  \A i, j \in 1..Len(list) : i # j => list[i].id # list[j].id

\* The score of a before entity and an after entity of this call.
Score(bi, ai) == ApplySimilarity(similarityFn, before[bi], after[ai])

\* Every change is built from the entities its sides name.
SidesDescribeChanges ==
  \A k \in 1..Len(changes) :
    /\ Len(sides) = Len(changes)
    /\ sides[k].before # 0 =>
         /\ sides[k].before \in 1..Len(before)
         /\ "beforeContent" \in DOMAIN changes[k]
         /\ changes[k].beforeContent = before[sides[k].before].content
    /\ sides[k].after # 0 =>
         /\ sides[k].after \in 1..Len(after)
         /\ changes[k].entityId = after[sides[k].after].id
         /\ "afterContent" \in DOMAIN changes[k]
         /\ changes[k].afterContent = after[sides[k].after].content
    /\ sides[k].before = 0 => "beforeContent" \notin DOMAIN changes[k]
    /\ sides[k].after = 0 =>
         /\ "afterContent" \notin DOMAIN changes[k]
         /\ changes[k].entityId = before[sides[k].before].id
    /\ sides[k].before # 0 \/ sides[k].after # 0

-----------------------------------------------------------------------------
(* C1 *)

\* C1: no entity is in more than one change: every before entity is the before
\* side of at most one change and every after entity is the after side of at
\* most one change, whatever phases pushed them.
NoEntityInTwoChanges ==
  /\ SidesDescribeChanges
  /\ \A k, l \in 1..Len(sides) :
       k # l =>
         /\ sides[k].before # 0 => sides[k].before # sides[l].before
         /\ sides[k].after # 0 => sides[k].after # sides[l].after

\* A finished call in which phase 2 and phase 3 each paired entities.
NoEntityInTwoChangesWitness ==
  /\ Done
  /\ PushedBy(2) # {}
  /\ PushedBy(3) # {}

-----------------------------------------------------------------------------
(* C2 *)

\* C2: matchEntities(E, E, path) pushes no change, with or without a
\* similarity function.
IdenticalListsNoChanges == before = after => changes = <<>>

\* A finished call on two equal lists of two entities, with fuzzy matching on.
IdenticalListsWitness ==
  /\ Done
  /\ before = after
  /\ Len(before) >= 2
  /\ before[1] # before[2]
  /\ similarityFn # Undefined

-----------------------------------------------------------------------------
(* C3 *)

\* C3: with an empty before list there are exactly |after| changes, all
\* 'added'; with an empty after list exactly |before| changes, all 'deleted'.
EmptySideAllAddedOrDeleted ==
  Done =>
    /\ before = <<>> =>
         /\ Len(changes) = Len(after)
         /\ \A k \in 1..Len(changes) : changes[k].changeType = "added"
    /\ after = <<>> =>
         /\ Len(changes) = Len(before)
         /\ \A k \in 1..Len(changes) : changes[k].changeType = "deleted"

\* A finished call with no before entity and two after entities.
EmptyBeforeWitness ==
  /\ Done
  /\ before = <<>>
  /\ Len(after) >= 2
  /\ Len(changes) >= 2

-----------------------------------------------------------------------------
(* C4 *)

Permute(list, p) == [ i \in 1..Len(list) |-> list[p[i]] ]

\* The changes of a call, without their order.
ChangeSet(m) == Range(m.changes)

\* Every reordering of the two lists gives the changes this call gave.
SameChangesInAnyOrder ==
  \A p \in Permutations(1..Len(before)), q \in Permutations(1..Len(after)) :
    ChangeSet(matchEntities(Permute(before, p), Permute(after, q), NewPath,
                            similarityFn, Undefined, Undefined))
      = Range(changes)

DistinctHashes(list) ==
  \A i, j \in 1..Len(list) : i # j => list[i].contentHash # list[j].contentHash

\* The pairs phase 3 may adopt when a similarity function is passed.
Similar(bi, ai) ==
  /\ similarityFn # Undefined
  /\ before[bi].entityType = after[ai].entityType
  /\ ScoreAtLeast(Score(bi, ai), THRESHOLD)

\* No entity has two partners to choose from in phase 3.
AtMostOneSimilar ==
  /\ \A ai \in 1..Len(after) :
       Cardinality({ bi \in 1..Len(before) : Similar(bi, ai) }) <= 1
  /\ \A bi \in 1..Len(before) :
       Cardinality({ ai \in 1..Len(after) : Similar(bi, ai) }) <= 1

\* C4, as claimed: reordering the entities of the before list or of the after
\* list changes the order of the changes at most, not the changes.  The claim
\* is about any two lists; it is stated here for the lists in which no two
\* entities share an id, which are enough to refute it.
ReorderingKeepsTheChanges ==
  Done /\ DistinctIds(before) /\ DistinctIds(after) => SameChangesInAnyOrder

\* C4, amended: it does so when in each list the ids are pairwise distinct and
\* the contentHashes are pairwise distinct, and no entity has two partners of
\* its entityType with a score of 0.80 or more.
ReorderingKeepsTheChangesWithoutTies ==
  /\ Done
  /\ DistinctIds(before) /\ DistinctIds(after)
  /\ DistinctHashes(before) /\ DistinctHashes(after)
  /\ AtMostOneSimilar
  => SameChangesInAnyOrder

\* A finished call on two lists of two entities each, with no such tie, that
\* paired one entity by its hash and one by its similarity.
ReorderingWitness ==
  /\ Done
  /\ Len(before) >= 2 /\ Len(after) >= 2
  /\ DistinctIds(before) /\ DistinctIds(after)
  /\ DistinctHashes(before) /\ DistinctHashes(after)
  /\ AtMostOneSimilar
  /\ PushedBy(2) # {}
  /\ PushedBy(3) # {}

-----------------------------------------------------------------------------
(* C5 *)

\* C5: the runs of computeSemanticDiff and formatJson that one process makes
\* over the same FileChange list, with the same registry, commit and author,
\* all return the same DiffResult and the same JSON text, whatever the earlier
\* runs have left in Parser and in grammarCache.
RunsAgree ==
  \A i, j \in 1..Len(outputs) :
    results[i] = results[j] /\ outputs[i] = outputs[j]

\* Two runs over a .ts file and a .tsx file that report changes, the second
\* run finding the grammars the first one cached.
RunsAgreeWitness ==
  /\ Len(outputs) >= 2
  /\ results[1].changes # <<>>
  /\ {"typescript", "tsx"} \subseteq DOMAIN grammarCache
  /\ \E i, j \in 1..Len(fileChanges) :
       /\ getExtension(fileChanges[i].filePath) = ExtTs
       /\ getExtension(fileChanges[j].filePath) = ExtTsx
       /\ "afterContent" \in DOMAIN fileChanges[i]
       /\ fileChanges[i].afterContent = SourceExportedClass

-----------------------------------------------------------------------------
(* C6 *)

\* The changes that have to do with the id: they carry it, or one of their
\* sides has it.
Involving(id) ==
  { k \in 1..Len(changes) :
      \/ changes[k].entityId = id
      \/ sides[k].before # 0 /\ before[sides[k].before].id = id
      \/ sides[k].after # 0 /\ after[sides[k].after].id = id }

HashesDiffer(id) ==
  \A i \in 1..Len(before), j \in 1..Len(after) :
    before[i].id = id /\ after[j].id = id =>
      before[i].contentHash # after[j].contentHash

HashesEqual(id) ==
  \A i \in 1..Len(before), j \in 1..Len(after) :
    before[i].id = id /\ after[j].id = id =>
      before[i].contentHash = after[j].contentHash

\* C6: once phase 1 is over, and for good, an id of both lists has exactly one
\* change, a 'modified' one with the content of both sides, when the hashes of
\* its before and after entities differ, and no change when they are equal.
ExactIdMatchModifiedOrSilent ==
  pc # "phase1" =>
    \A id \in BeforeIds \cap AfterIds :
      /\ HashesDiffer(id) =>
           \E k \in 1..Len(changes) :
             /\ Involving(id) = {k}
             /\ changes[k].changeType = "modified"
             /\ sides[k].phase = 1
             /\ before[sides[k].before].id = id
             /\ after[sides[k].after].id = id
             /\ changes[k].beforeContent = before[sides[k].before].content
             /\ changes[k].afterContent = after[sides[k].after].content
      /\ HashesEqual(id) => Involving(id) = {}

\* A finished call with one id whose hash changed and one whose hash did not.
ExactIdMatchWitness ==
  /\ Done
  /\ \E id \in BeforeIds \cap AfterIds : HashesDiffer(id) /\ ~HashesEqual(id)
  /\ \E id \in BeforeIds \cap AfterIds : HashesEqual(id) /\ ~HashesDiffer(id)

-----------------------------------------------------------------------------
(* C7 *)

\* The before entities popped for the after entities that come before ai.
PoppedBefore(ai) ==
  { sides[k].before : k \in { l \in PushedBy(2) : sides[l].after < ai } }

\* The before entities ai can be paired with when its turn comes.
HashCandidates(ai) ==
  { bi \in LeftByPhase1Before \ PoppedBefore(ai) :
      before[bi].contentHash = after[ai].contentHash }

\* C7: phase 2 takes the after entities left by phase 1 in list order and
\* pairs each one that has the hash of a before entity left by phase 1 and not
\* yet popped with the earliest such before entity, and with no other; a
\* before entity is popped for at most one after entity.
HashMatchIsFifo ==
  pc \notin {"phase1", "phase2"} =>
    /\ \A ai \in LeftByPhase1After :
         IF HashCandidates(ai) # {}
           THEN \E k \in PushedBy(2) :
                  /\ sides[k].after = ai
                  /\ sides[k].before = Min(HashCandidates(ai))
           ELSE \A k \in PushedBy(2) : sides[k].after # ai
    /\ \A k \in PushedBy(2) : sides[k].after \in LeftByPhase1After
    /\ \A k, l \in PushedBy(2) :
         /\ k # l => sides[k].before # sides[l].before /\ sides[k].after # sides[l].after
         /\ k < l => sides[k].after < sides[l].after

\* Two before entities with one hash wait for an after entity with that hash.
HashMatchWitness ==
  /\ pc = "phase3"
  /\ \E ai \in LeftByPhase1After :
       /\ Cardinality(HashCandidates(ai)) >= 2
       /\ \E k \in PushedBy(2) : sides[k].after = ai

-----------------------------------------------------------------------------
(* C8 *)

\* C8: a change of phase 2 or 3 is 'moved', with the before entity's path as
\* oldFilePath, when the paths of the pair differ, and 'renamed', without
\* oldFilePath, when they are equal; no other change has an oldFilePath.
MovedOrRenamedByPath ==
  \A k \in 1..Len(changes) :
    IF sides[k].phase \in {2, 3}
      THEN LET b == before[sides[k].before]
               a == after[sides[k].after]
           IN  IF b.filePath # a.filePath
                 THEN /\ changes[k].changeType = "moved"
                      /\ "oldFilePath" \in DOMAIN changes[k]
                      /\ changes[k].oldFilePath = b.filePath
                 ELSE /\ changes[k].changeType = "renamed"
                      /\ "oldFilePath" \notin DOMAIN changes[k]
      ELSE /\ changes[k].changeType \in {"modified", "deleted", "added"}
           /\ "oldFilePath" \notin DOMAIN changes[k]

\* A finished call that moved one entity by its hash and another by its
\* similarity, and one that renamed entities in both ways.
MovedWitness ==
  /\ Done
  /\ \E k \in PushedBy(2) : changes[k].changeType = "moved"
  /\ \E k \in PushedBy(3) : changes[k].changeType = "moved"

-----------------------------------------------------------------------------
(* C9 *)

\* The before entities adopted for the after entities that come before ai.
AdoptedBefore(ai) ==
  { sides[k].before : k \in { l \in PushedBy(3) : sides[l].after < ai } }

\* The before entities of ai's type that no phase has paired when ai's turn
\* comes in phase 3.
FuzzyCandidates(ai) ==
  { bi \in LeftByPhase2Before \ AdoptedBefore(ai) :
      before[bi].entityType = after[ai].entityType }

\* Those of them with the highest score.
BestCandidates(ai) ==
  { bi \in FuzzyCandidates(ai) :
      \A other \in FuzzyCandidates(ai) : ScoreAtLeast(Score(bi, ai), Score(other, ai)) }

\* Phase 3 as the claim describes it, for the after entities in S.
GreedyBestFor(S) ==
  /\ \A ai \in S :
       IF \E bi \in BestCandidates(ai) : ScoreAtLeast(Score(bi, ai), THRESHOLD)
         THEN \E k \in PushedBy(3) :
                /\ sides[k].after = ai
                /\ sides[k].before = Min(BestCandidates(ai))
         ELSE \A k \in PushedBy(3) : sides[k].after # ai
  /\ \A k \in PushedBy(3) : sides[k].after \in LeftByPhase2After
  /\ \A k, l \in PushedBy(3) : k # l => sides[k].before # sides[l].before

\* C9: given a similarity function, phase 3 takes the after entities left by
\* phase 2 in list order and pairs each with the not yet paired before entity
\* of its entityType that has the highest score, the earliest of them on a
\* tie, if and only if that score is at least 0.80; a before entity adopted
\* once is no candidate afterwards.
FuzzyMatchIsGreedyBest ==
  pc \in {"terminal", "done"} /\ similarityFn # Undefined =>
    GreedyBestFor(LeftByPhase2After)

\* The same, for lists in which no two entities share an id.
FuzzyMatchIsGreedyBestOfDistinctIds ==
  /\ pc \in {"terminal", "done"}
  /\ similarityFn # Undefined
  /\ DistinctIds(before)
  /\ DistinctIds(after)
  => GreedyBestFor(LeftByPhase2After)

\* Phase 3 chose between two candidates at or above the threshold for one
\* after entity, with ids distinct in both lists.
FuzzyMatchWitness ==
  /\ pc = "terminal"
  /\ similarityFn # Undefined
  /\ DistinctIds(before)
  /\ DistinctIds(after)
  /\ \E ai \in LeftByPhase2After :
       /\ Cardinality({ bi \in FuzzyCandidates(ai) :
                          ScoreAtLeast(Score(bi, ai), THRESHOLD) }) >= 2
       /\ Cardinality(BestCandidates(ai)) = 1
       /\ \E k \in PushedBy(3) : sides[k].after = ai

-----------------------------------------------------------------------------
(* C10 *)

\* An after entity reported added although a before entity of its type whose
\* Jaccard overlap with it is at least 0.80 is reported deleted.
SimilarPairReportedApart ==
  \E k, l \in PushedBy(4) :
    /\ changes[k].changeType = "deleted"
    /\ changes[l].changeType = "added"
    /\ before[sides[k].before].entityType = after[sides[l].after].entityType
    /\ ScoreAtLeast(defaultSimilarity(before[sides[k].before], after[sides[l].after]),
                    THRESHOLD)

\* C10, as claimed: with or without a similarity function, entities left by
\* phase 2 that are similar enough are not reported as a deleted and an added
\* change.
FuzzyMatchRunsByDefault == Done => ~SimilarPairReportedApart

\* C10, amended: without a similarity function phase 3 pushes nothing, and
\* with defaultSimilarity passed no such pair is reported apart.
FuzzyMatchRunsOnlyWithSimilarityFn ==
  /\ similarityFn = Undefined => PushedBy(3) = {}
  /\ Done /\ similarityFn # Undefined => ~SimilarPairReportedApart

\* A finished call with defaultSimilarity that paired two entities in phase 3.
FuzzyMatchRunsWitness ==
  /\ Done
  /\ similarityFn # Undefined
  /\ PushedBy(3) # {}

-----------------------------------------------------------------------------
(* C11 *)

\* The positions of the list that a change pushed in one of the phases was
\* built from.
BeforeOfPhases(phases) ==
  { sides[k].before : k \in { j \in 1..Len(sides) : sides[j].phase \in phases } } \ {0}

AfterOfPhases(phases) ==
  { sides[k].after : k \in { j \in 1..Len(sides) : sides[j].phase \in phases } } \ {0}

\* The positions phase 3 goes through when it is about to run.
Phase3CandidatesBefore ==
  IF pc = "phase3"
    THEN Range(StillUnmatched(before, unmatchedBefore, matchedBefore)) ELSE {}

Phase3CandidatesAfter ==
  IF pc = "phase3"
    THEN Range(StillUnmatched(after, unmatchedAfter, matchedAfter)) ELSE {}

\* C11: at every point of the call, no entity whose id is in both lists is
\* paired by phase 2 or 3, is a candidate of phase 3, or is reported deleted
\* or added; and no entity paired by phase 2 is a candidate of phase 3, is
\* paired by phase 3, or is reported deleted or added.
PhasesAreStrict ==
  /\ \A i \in BeforeOfPhases({2, 3, 4}) \cup Phase3CandidatesBefore :
       before[i].id \notin AfterIds
  /\ \A i \in AfterOfPhases({2, 3, 4}) \cup Phase3CandidatesAfter :
       after[i].id \notin BeforeIds
  /\ BeforeOfPhases({2}) \cap (BeforeOfPhases({3, 4}) \cup Phase3CandidatesBefore) = {}
  /\ AfterOfPhases({2}) \cap (AfterOfPhases({3, 4}) \cup Phase3CandidatesAfter) = {}

\* A call in which phase 2 paired two entities and phase 3 two others.
PhasesAreStrictWitness ==
  /\ Done
  /\ PushedBy(2) # {}
  /\ PushedBy(3) # {}
  /\ BeforeOfPhases({2}) # BeforeOfPhases({3})

-----------------------------------------------------------------------------
(* C12 *)

\* The changes of the last run.
LastChanges == IF results = <<>> THEN <<>> ELSE results[Len(results)].changes

\* The group of LastChanges[k] within its file: 1 for the modified changes of
\* phase 1, 2 and 3 for the renamed and moved changes of phases 2 and 3, 4 for
\* the deleted changes, 5 for the added ones, and 0 for a change whose type
\* is not one its phase pushes.
GroupOf(k) ==
  LET type == LastChanges[k].changeType
      o == origins[k]
  IN  CASE o.phase = 1 /\ type = "modified" -> 1
        [] o.phase \in {2, 3} /\ type \in {"renamed", "moved"} -> o.phase
        [] o.phase = 4 /\ o.after = 0 /\ type = "deleted" -> 4
        [] o.phase = 4 /\ o.before = 0 /\ type = "added" -> 5
        [] OTHER -> 0

\* The place in its list of the entity LastChanges[k] is the change of: the
\* before entity of a deleted change, the after entity of any other.
PlaceOf(k) == IF origins[k].after = 0 THEN origins[k].before ELSE origins[k].after

\* <<file, group, place>> of k is not after that of l.
NotAfter(k, l) ==
  \/ origins[k].file < origins[l].file
  \/ /\ origins[k].file = origins[l].file
     /\ \/ GroupOf(k) < GroupOf(l)
        \/ GroupOf(k) = GroupOf(l) /\ PlaceOf(k) <= PlaceOf(l)

ChangesInOrder ==
  /\ Len(origins) = Len(LastChanges)
  /\ \A k \in 1..Len(origins) : GroupOf(k) # 0
  /\ \A k, l \in 1..Len(origins) : k < l => NotAfter(k, l)

\* Each side of each file gives the table plugin entities of distinct ids.
TablesHaveDistinctKeys ==
  \A i \in 1..Len(fileChanges) :
    /\ "beforeContent" \in DOMAIN fileChanges[i] =>
         DistinctIds(CsvExtractEntities(fileChanges[i].beforeContent,
                                        OldPathOf(fileChanges[i])))
    /\ "afterContent" \in DOMAIN fileChanges[i] =>
         DistinctIds(CsvExtractEntities(fileChanges[i].afterContent,
                                        fileChanges[i].filePath))

\* C12: in the change list of computeSemanticDiff the changes of a file come
\* before those of the files after it in the FileChange list, and within a
\* file the modified changes of phase 1, the renamed and moved changes of
\* phase 2, those of phase 3, the deleted and the added changes follow one
\* another, each group in the list order of the entities the changes are of.
ChangesAreOrdered == ChangesInOrder

\* The same, of files whose entity lists have no id twice.
ChangesAreOrderedOfDistinctIds == TablesHaveDistinctKeys => ChangesInOrder

-----------------------------------------------------------------------------
(* C13 *)

\* The index after the comment that opens before index i: after its "*/",
\* or after the text when it has none.
RECURSIVE CommentEnd(_, _)
CommentEnd(s, i) ==
  IF i >= Len(s) THEN Len(s) + 1
  ELSE IF s[i] = "*" /\ s[i + 1] = "/" THEN i + 2
  ELSE CommentEnd(s, i + 1)

\* The text without its comments and with every run of whitespace outside a
\* string literal as one space.
RECURSIVE WithoutCosmeticsFrom(_, _, _, _)
WithoutCosmeticsFrom(s, i, inString, out) ==
  IF i > Len(s) THEN out
  ELSE IF inString
    THEN WithoutCosmeticsFrom(s, i + 1, s[i] # "\"", Append(out, s[i]))
  ELSE IF s[i] = "\""
    THEN WithoutCosmeticsFrom(s, i + 1, TRUE, Append(out, s[i]))
  ELSE IF s[i] = "/" /\ i < Len(s) /\ s[i + 1] = "*"
    THEN WithoutCosmeticsFrom(s, CommentEnd(s, i + 2), FALSE, out)
  ELSE IF s[i] \in Whitespace
    THEN WithoutCosmeticsFrom(s, i + 1, FALSE,
           IF out # <<>> /\ out[Len(out)] = " " THEN out ELSE Append(out, " "))
  ELSE WithoutCosmeticsFrom(s, i + 1, FALSE, Append(out, s[i]))

WithoutCosmetics(s) == Trim(WithoutCosmeticsFrom(s, 1, FALSE, <<>>))

\* The file was rewritten cosmetically: its two texts differ, in comments and
\* whitespace only.
CosmeticRewrite(file) ==
  /\ file.beforeContent # file.afterContent
  /\ WithoutCosmetics(file.beforeContent) = WithoutCosmetics(file.afterContent)

\* C13: when every file of the list was rewritten cosmetically, the entities
\* keep their contentHash and the diff reports no modified change (and no
\* other change, the ids being the same).
CosmeticRewritesAreNoChanges ==
  (/\ results # <<>>
   /\ \A i \in 1..Len(fileChanges) : CosmeticRewrite(fileChanges[i]))
    => \A k \in 1..Len(LastChanges) : LastChanges[k].changeType # "modified"

-----------------------------------------------------------------------------
(* C14 *)

\* The entities the call of extractEntities returned.
ExtractedEntities == IF extraction.returned THEN extraction.entities ELSE <<>>

\* C14: the entities one call of extractEntities returns have pairwise
\* distinct ids, whatever the plugin and the file.
ExtractedIdsAreDistinct ==
  \A i, j \in 1..Len(ExtractedEntities) :
    i # j => ExtractedEntities[i].id # ExtractedEntities[j].id

-----------------------------------------------------------------------------
(* C15 *)

\* C15: the parentId of an entity that extractEntities returned is absent, or
\* it is the id of another entity of the list.
ParentsAreExtracted ==
  \A i \in 1..Len(ExtractedEntities) :
    "parentId" \in DOMAIN ExtractedEntities[i]
      => \E j \in 1..Len(ExtractedEntities) :
           j # i /\ ExtractedEntities[j].id = ExtractedEntities[i].parentId

-----------------------------------------------------------------------------
(* C16 *)

\* C16: an entity that extractEntities returned lies inside the lines of its
\* parent, the entity of the list that its parentId names.
RangesAreNested ==
  \A i, j \in 1..Len(ExtractedEntities) :
    ("parentId" \in DOMAIN ExtractedEntities[i]
       /\ ExtractedEntities[j].id = ExtractedEntities[i].parentId)
      => /\ ExtractedEntities[i].startLine >= ExtractedEntities[j].startLine
         /\ ExtractedEntities[i].endLine <= ExtractedEntities[j].endLine

-----------------------------------------------------------------------------
(* C17 *)

\* plugin.extractEntities throws for this side of the file.
SideThrows(file, side, filePath) ==
  /\ side \in DOMAIN file
  /\ file[side] # <<>>
  /\ getPlugin(invocation.registry, file.filePath).found
  /\ PluginExtractEntities(getPlugin(invocation.registry, file.filePath).plugin,
                           file[side], filePath, Parser, grammarCache,
                           installed).threw

BeforeThrows(file) == SideThrows(file, "beforeContent", OldPathOf(file))
AfterThrows(file) == SideThrows(file, "afterContent", file.filePath)

\* The file without the sides that throw.
WithoutDomain(file, left) == [ f \in DOMAIN file \ left |-> file[f] ]

WithoutThrowingSides(file) ==
  WithoutDomain(file, (IF BeforeThrows(file) THEN {"beforeContent"} ELSE {})
                        \cup (IF AfterThrows(file) THEN {"afterContent"} ELSE {}))

\* The list without the file at index i.
WithoutFile(list, i) == SubSeq(list, 1, i - 1) \o SubSeq(list, i + 1, Len(list))

\* The changes of the list that come from another file than the one at index i.
ChangesOfOthers(list, from, i) ==
  LET kept == SelectSeq(Positions(list), LAMBDA k : from[k].file # i)
  IN  [ n \in 1..Len(kept) |-> list[kept[n]] ]

\* The changes of a run over the files, begun in the state of this process.
ChangesOfRun(files) ==
  computeSemanticDiff(files, invocation.registry, invocation.commitSha,
                      invocation.author, Parser, grammarCache, installed
                     ).result.changes

\* C17: a run returns a result, and for a file with a side on which
\* extractEntities throws, the result is the one the run would have with that
\* side empty, and its changes for the other files are the ones the run would
\* have without the file.
ThrowingSidesAreEmpty ==
  [][ /\ "threw" \notin DOMAIN results'[Len(results')]
      /\ results'[Len(results')].changes
           = ChangesOfRun([ i \in 1..Len(fileChanges) |->
                              WithoutThrowingSides(fileChanges[i]) ])
      /\ \A i \in 1..Len(fileChanges) :
           (BeforeThrows(fileChanges[i]) \/ AfterThrows(fileChanges[i]))
             => ChangesOfOthers(results'[Len(results')].changes, origins', i)
                  = ChangesOfRun(WithoutFile(fileChanges, i)) ]_vars

\* A run over a JSON file that is cut short on one side and has entities on
\* the other, and over another file, both with changes in the result.
ThrowingSidesAreEmptyWitness ==
  /\ results # <<>>
  /\ Len(fileChanges) = 2
  /\ \E i \in 1..2 :
       /\ BeforeThrows(fileChanges[i]) \/ AfterThrows(fileChanges[i])
       /\ ~AfterThrows(fileChanges[3 - i])
       /\ ~BeforeThrows(fileChanges[3 - i])
       /\ \E k, l \in 1..Len(origins) : origins[k].file = i /\ origins[l].file = 3 - i

-----------------------------------------------------------------------------
(* C18 *)

\* The file was renamed, and the registry has a plugin for it.
Renamed(file) ==
  /\ "oldFilePath" \in DOMAIN file
  /\ file.oldFilePath # file.filePath
  /\ getPlugin(invocation.registry, file.filePath).found

\* The entities of a side of the file, as its plugin extracts them under the
\* path.
EntitiesOfSide(file, side, filePath) ==
  ExtractSide(file, side, getPlugin(invocation.registry, file.filePath).plugin,
              filePath, Parser, grammarCache, installed).entities

\* The number of entities of the list with the contentHash.
CountOfHash(list, hash) ==
  Cardinality({ n \in 1..Len(list) : list[n].contentHash = hash })

\* The changes of the last run built from the before entity at position b of
\* the file at index i.
ChangesOfBefore(i, b) ==
  { k \in 1..Len(origins) : origins[k].file = i /\ origins[k].before = b }

\* The changes built from the after entity that the change at k was built
\* from.
ChangesOfAfterOf(k) ==
  { l \in 1..Len(origins) :
      origins[l].file = origins[k].file /\ origins[l].after = origins[k].after }

\* For the renamed file at index i, with the before entities B extracted
\* under the old path and the after entities A: a change built from a before
\* entity has that entity's content (and as a deleted change its id and path),
\* and each before entity whose content is kept has one change, a moved one
\* with the old path, and the after entity of that change has no other.
MovedAcrossRename(i, oldFilePath, B, A) ==
  \A b \in 1..Len(B) :
    /\ \A k \in ChangesOfBefore(i, b) :
         /\ LastChanges[k].beforeContent = B[b].content
         /\ LastChanges[k].changeType = "deleted"
              => /\ LastChanges[k].entityId = B[b].id
                 /\ LastChanges[k].filePath = oldFilePath
    /\ CountOfHash(B, B[b].contentHash) <= CountOfHash(A, B[b].contentHash)
         => /\ Cardinality(ChangesOfBefore(i, b)) = 1
            /\ \A k \in ChangesOfBefore(i, b) :
                 /\ LastChanges[k].changeType = "moved"
                 /\ "oldFilePath" \in DOMAIN LastChanges[k]
                 /\ LastChanges[k].oldFilePath = oldFilePath
                 /\ LastChanges[k].afterContent = B[b].content
                 /\ ChangesOfAfterOf(k) = {k}

\* C18: the before entities of a renamed file are extracted under its old
\* path, and each of them whose content is kept across the rename is reported
\* once, as moved from the old path.
RenamedEntitiesAreMoved ==
  results # <<>>
    => \A i \in 1..Len(fileChanges) :
         Renamed(fileChanges[i])
           => MovedAcrossRename(
                i, fileChanges[i].oldFilePath,
                EntitiesOfSide(fileChanges[i], "beforeContent",
                               fileChanges[i].oldFilePath),
                EntitiesOfSide(fileChanges[i], "afterContent",
                               fileChanges[i].filePath))

\* A run over a renamed table with a row that is there twice and over a
\* renamed source whose class and method are both moved.
RenamedEntitiesAreMovedWitness ==
  /\ results # <<>>
  /\ Len(fileChanges) = 2
  /\ fileChanges[1].beforeContent = Table(<<RowA1, RowA1>>)
  /\ fileChanges[1].afterContent = Table(<<RowA1, RowA1>>)
  /\ fileChanges[2].beforeContent = SourceExportedClass
  /\ fileChanges[2].filePath = PathPPy \/ fileChanges[2].filePath = PathCTxt
  /\ Cardinality({ k \in 1..Len(LastChanges) :
                     LastChanges[k].changeType = "moved" }) >= 3

-----------------------------------------------------------------------------
(* C19 *)

\* The register calls so far.
Registered == registration.registered

\* The last of the register calls that has the property.
LastRegistered(Has(_)) ==
  Max({ n \in 1..Len(Registered) : Has(Registered[n]) })

\* The plugin registered under the id: the last one, which took the place of
\* the ones before.
RegisteredUnder(id) == Registered[LastRegistered(LAMBDA p : p.id = id)]

\* The plugin registered for the extension: the one under the id of the last
\* plugin that lists the extension; or else the fallback plugin.
RegisteredFor(ext) ==
  IF \E n \in 1..Len(Registered) : ext \in Range(Registered[n].extensions)
    THEN RegisteredUnder(
           Registered[LastRegistered(LAMBDA p : ext \in Range(p.extensions))].id)
    ELSE RegisteredUnder("fallback")

\* The lookup was made after a register call of the fallback plugin, the last
\* one so far.
LookedAfterFallback ==
  /\ registration # <<>>
  /\ registration.looked # <<>>
  /\ Registered # <<>>
  /\ Registered[Len(Registered)] = FallbackParserPlugin

LookupFindsFallbackWitness ==
  /\ LookedAfterFallback
  /\ registration.looked[1] = PathMakefile
  /\ registration.looked[2].plugin = FallbackParserPlugin

-----------------------------------------------------------------------------
(* C20 *)

\* The fields of an entity that the claim names.
StoredFields(e) ==
  WithOptional([ id          |-> e.id,
                 filePath    |-> e.filePath,
                 entityType  |-> e.entityType,
                 name        |-> e.name,
                 content     |-> e.content,
                 contentHash |-> e.contentHash,
                 startLine   |-> e.startLine,
                 endLine     |-> e.endLine ],
               "parentId", "parentId" \in DOMAIN e,
               IF "parentId" \in DOMAIN e THEN e.parentId ELSE <<>>)

\* The last call was insertEntities.
Inserted == database # <<>> /\ database.call.op = "insertEntities"

\* getEntities returns the inserted entities, each once and with its fields,
\* and with a path those of them at the path.
ReadsBack(entities, snapshot) ==
  \A filePath \in QueryPaths :
    /\ Range(getEntities(database.rows, snapshot, filePath))
         = { StoredFields(entities[n]) :
               n \in { m \in 1..Len(entities) :
                         filePath # <<>> => entities[m].filePath = filePath } }
    /\ Len(getEntities(database.rows, snapshot, <<>>)) = Len(entities)

\* Before the call, the snapshot had no entity with an id that is not among
\* those inserted.
SnapshotHeldOnly(entities, snapshot, rowsBefore) ==
  \A n \in 1..Len(rowsBefore) :
    rowsBefore[n].snapshot = snapshot
      => \E m \in 1..Len(entities) : entities[m].id = rowsBefore[n].id

\* C20 as stated: after insertEntities(E, S), getEntities(S) returns exactly
\* the entities of E, and getEntities(S, f) those of them at f.
InsertedAreReadBack ==
  Inserted => ReadsBack(database.call.entities, database.call.snapshot)

\* C20, for a snapshot that holds nothing else: after insertEntities(E, S) on
\* a database whose snapshot S had only entities with ids of E, getEntities(S)
\* returns exactly the entities of E, and getEntities(S, f) those of them at
\* f.
InsertedAloneAreReadBack ==
  (Inserted /\ SnapshotHeldOnly(database.call.entities, database.call.snapshot,
                                database.call.rowsBefore))
    => ReadsBack(database.call.entities, database.call.snapshot)

\* Two entities, one with a parent, inserted into a snapshot that had another
\* version of one of them.
InsertedAloneAreReadBackWitness ==
  /\ Inserted
  /\ Len(database.call.entities) = 2
  /\ \E n \in 1..2 : "parentId" \in DOMAIN database.call.entities[n]
  /\ SnapshotHeldOnly(database.call.entities, database.call.snapshot,
                      database.call.rowsBefore)
  /\ \E n \in 1..Len(database.call.rowsBefore) :
       /\ database.call.rowsBefore[n].snapshot = database.call.snapshot
       /\ \A m \in 1..2 :
            database.call.entities[m].contentHash
              # database.call.rowsBefore[n].content_hash

-----------------------------------------------------------------------------
(* C21: changes are appended to the store *)

\* The change r that getChanges returned is the change c that was passed: it
\* has every field of c, with the value of c.
ReturnsChange(r, c) ==
  \A k \in DOMAIN c : k \in DOMAIN r /\ r[k] = c[k]

\* getChanges() without filters.
AllStoredChanges == getChanges(database.changes, <<>>)

\* C21: after the insertChanges calls of sem log --store, getChanges() without
\* filters returns every change that was passed to one of the calls, also the
\* change of an entity that a later call stored again for another commit.
ChangesAreAppended ==
  \A n \in 1..Len(command.passed) :
    \E k \in 1..Len(AllStoredChanges) :
      ReturnsChange(AllStoredChanges[k], command.passed[n])

-----------------------------------------------------------------------------
(* C22: the chunks of the fallback plugin *)

\* The number of lines of the file that was extracted: none for the empty
\* file.
LinesOfFile ==
  IF extraction.content = <<>> THEN 0
  ELSE Cardinality({ i \in 1..Len(extraction.content) : extraction.content[i] = "\n" }) + 1

\* The chunks e are consecutive, of 1 to 20 lines each, cover the lines 1..n,
\* and each is named after its lines.
ChunksCover(e, n) ==
  /\ (n = 0) = (e = <<>>)
  /\ e # <<>> => e[1].startLine = 1 /\ e[Len(e)].endLine = n
  /\ \A k \in 1..Len(e) :
       /\ e[k].entityType = "chunk"
       /\ e[k].startLine <= e[k].endLine
       /\ e[k].endLine - e[k].startLine + 1 <= 20
       /\ e[k].name = <<"lines ", e[k].startLine, "-", e[k].endLine>>
       /\ k < Len(e) => e[k + 1].startLine = e[k].endLine + 1

\* C22: for a file of N lines the fallback plugin returns chunks that are
\* consecutive, of at most 20 lines, cover the lines 1..N and are named
\* `lines <start>-<end>`; for the empty file it returns no chunk.
ChunksCoverLines ==
  extraction.returned => ChunksCover(extraction.entities, LinesOfFile)

\* The same of the files that are not empty, which is what the plugin does.
ChunksCoverLinesOfText ==
  (extraction.returned /\ extraction.content # <<>>)
    => ChunksCover(extraction.entities, LinesOfFile)

-----------------------------------------------------------------------------
(* C23: blame attributes an entity to the newest commit that touched it *)

\* The entities of the file at the k-th commit of the walk: what its plugin
\* extracts from the content the commit has for it, and none when the commit
\* does not have the file, has it empty, or has a text the plugin rejects.
EntitiesAtWalked(k) ==
  LET shown == GitShow(repository, Revision(command.commits[k].sha, 0),
                       command.filePath)
      got == PluginExtractEntities(BlamePlugin, shown.content, command.filePath,
                                   "null", EmptyMap, installed)
  IN  IF shown.threw \/ shown.content = <<>> \/ got.threw THEN <<>> ELSE got.entities

\* The content hashes under which the k-th commit of the walk has the entity.
HashesAtWalked(k, id) ==
  { EntitiesAtWalked(k)[n].contentHash :
      n \in { m \in 1..Len(EntitiesAtWalked(k)) : EntitiesAtWalked(k)[m].id = id } }

\* The k-th commit of the walk touched the entity: it has it, and the
\* next-older commit of the walk does not, or has it with another hash, or
\* there is no older commit in the walk.
TouchedAt(k, id) ==
  /\ HashesAtWalked(k, id) # {}
  /\ k < Len(command.commits) => HashesAtWalked(k + 1, id) # HashesAtWalked(k, id)

\* The commits the walk has been through that touched the entity.
TouchesSoFar(id) == { k \in 1..(command.i - 1) : TouchedAt(k, id) }

\* The entries the blame map has for the entity.
BlamedOn(id) ==
  { n \in 1..Len(command.blameMap) : command.blameMap[n].entityId = id }

-----------------------------------------------------------------------------
(* C24: the transitions history records *)

\* The entity of the query at the k-th commit of the walk, as a list of one
\* entity: what the plugin extracts under that name from the content the
\* commit has for the file, and the empty list when the commit does not have
\* the file, has it empty, or has a text the plugin rejects.
NamedAtWalked(k) ==
  LET shown == GitShow(repository, Revision(command.commits[k].sha, 0),
                       command.filePath)
      got == PluginExtractEntities(
               getPlugin(invocation.registry, command.filePath).plugin,
               shown.content, command.filePath, "null", EmptyMap, installed)
  IN  IF shown.threw \/ shown.content = <<>> \/ got.threw THEN <<>>
      ELSE FindByName(got.entities, command.entityName)

\* The entity at the next-older commit of the walk; the last commit of the
\* walk has none.
NamedBeforeWalked(k) ==
  IF k < Len(command.commits) THEN NamedAtWalked(k + 1) ELSE <<>>

\* The transition at the k-th commit of the walk.
TransitionAt(k) ==
  CASE NamedAtWalked(k) # <<>> /\ NamedBeforeWalked(k) = <<>> -> "added"
    [] /\ NamedAtWalked(k) # <<>> /\ NamedBeforeWalked(k) # <<>>
       /\ NamedAtWalked(k)[1].contentHash # NamedBeforeWalked(k)[1].contentHash
         -> "modified"
    [] NamedAtWalked(k) = <<>> /\ NamedBeforeWalked(k) # <<>> -> "deleted"
    [] OTHER -> "none"

\* The commits of the walk that have a transition, the oldest first.
Flips ==
  SelectSeq([ n \in 1..Len(command.commits) |-> Len(command.commits) + 1 - n ],
            LAMBDA k : TransitionAt(k) # "none")

\* C24: the timeline of historyCommand has one entry for every commit of the
\* walk at which the presence or the contentHash of the entity differs from
\* the next-older commit, and no other: added where the entity is there and
\* was not, modified where the hash changed, deleted where it was there and
\* is not.
TimelineIsTheFlips ==
  (command.pc = "done" /\ command.commits # <<>> /\ command.filePath # <<>>)
    => /\ Len(command.timeline) = Len(Flips)
       /\ \A n \in 1..Len(Flips) :
            /\ command.timeline[n].commitSha = command.commits[Flips[n]].sha
            /\ command.timeline[n].changeType = TransitionAt(Flips[n])

-----------------------------------------------------------------------------
(* C25: the contents of the changed files *)

\* The tree of a commit of the repository.
TreeAt(rev) == repository.commits[CommitAt(repository, rev)].tree

\* The tree on the before side of a scope: HEAD for the working directory and
\* for the index, the parent for a commit, `from` for a range.
BeforeTree(scope) ==
  CASE scope.type \in {"working", "staged"} -> TreeAt(Revision("HEAD", 0))
    [] scope.type = "commit" -> TreeAt(Revision(scope.sha, 1))
    [] scope.type = "range" -> TreeAt(Revision(scope.from, 0))

\* The tree on the after side of a scope.
AfterTree(scope) ==
  CASE scope.type = "working" -> repository.worktree
    [] scope.type = "staged" -> repository.index
    [] scope.type = "commit" -> TreeAt(Revision(scope.sha, 0))
    [] scope.type = "range" -> TreeAt(Revision(scope.to, 0))

\* The path a file had on the before side.
PathOnBeforeSide(file) ==
  IF file.status = "renamed" THEN file.oldFilePath ELSE file.filePath

\* The contents of one returned file are those of the two sides of the scope.
ContentsOfSides(file, scope) ==
  /\ ("beforeContent" \in DOMAIN file) = (file.status # "added")
  /\ ("afterContent" \in DOMAIN file) = (file.status # "deleted")
  /\ "beforeContent" \in DOMAIN file
       => /\ PathOnBeforeSide(file) \in DOMAIN BeforeTree(scope)
          /\ file.beforeContent = BeforeTree(scope)[PathOnBeforeSide(file)]
  /\ "afterContent" \in DOMAIN file
       => /\ file.filePath \in DOMAIN AfterTree(scope)
          /\ file.afterContent = AfterTree(scope)[file.filePath]

\* C25: every file getChangedFiles returns has as beforeContent the content of
\* the file (of its old path when it is renamed) on the before side of the
\* scope, unset only for an added file, and as afterContent its content on
\* the after side, unset only for a deleted file.
ContentsAreOfTheScope ==
  (command.returned /\ ~command.read.threw)
    => \A n \in 1..Len(command.read.files) :
         ContentsOfSides(command.read.files[n], command.scope)

-----------------------------------------------------------------------------
(* C26 *)

\* The command is over: it returned, or an exception left it.
CommandEnded == command.pc \in {"done", "thrown"}

\* C26: a command that opened a SemDatabase has closed it when it ends, on
\* every exit path: no connection is open once logCommand has returned or an
\* exception (a git call that failed after the database was opened) has left
\* it.
DatabaseIsClosedAtExit ==
  (command.name = "log" /\ CommandEnded) => database.connections = 0

-----------------------------------------------------------------------------
(* C27 *)

\* The entities are the rows of the records after the header: one entity for
\* each, its metadata the cell of each header.
RowsOfRecords(entities, records) ==
  /\ Len(entities) = Len(records) - 1
  /\ \A n \in 1..Len(entities) :
       /\ entities[n].entityType = "row"
       /\ entities[n].metadata =
            [ h \in Range(records[1]) |->
                records[n + 1][CHOOSE k \in 1..Len(records[1]) : records[1][k] = h] ]

\* The call returned the rows of the file that RFC 4180 writes for the
\* records.
RecordsReadBack(records) ==
  (/\ extraction.plugin.id = "csv"
   /\ extraction.returned
   /\ extraction.content = WrittenFile(records, SeparatorOf(extraction.filePath)))
    => (~extraction.threw /\ RowsOfRecords(extraction.entities, records))

\* C27: quoting follows RFC 4180: a separator inside a quoted field does not
\* end the cell, a line break inside it does not end the row, a doubled quote
\* is one quote and the enclosing quotes are no part of the value, so every
\* record of the file gives one row entity whose metadata maps each header to
\* the cell of its column.
QuotingFollowsRfc4180 ==
  \A records \in QuotedRecords(SeparatorOf(extraction.filePath)) : RecordsReadBack(records)

\* The same for the records without a line break in a field.
QuotingOnOneLine ==
  \A records \in QuotedRecords(SeparatorOf(extraction.filePath)) :
    (\A n \in 1..Len(records) : \A k \in 1..Len(records[n]) :
       "\n" \notin Range(records[n][k]))
      => RecordsReadBack(records)

-----------------------------------------------------------------------------
(* C28 *)

\* The changes of the given types that name position i of the before list,
\* and of the after list.
ChangesNamingBefore(i, types) ==
  { k \in 1..Len(changes) : sides[k].before = i /\ changes[k].changeType \in types }

ChangesNamingAfter(i, types) ==
  { k \in 1..Len(changes) : sides[k].after = i /\ changes[k].changeType \in types }

\* The number of the ways a before entity is accounted for: matched by its id,
\* the before side of renamed or moved changes, the subject of deleted
\* changes; and the same for an after entity.
AccountsOfBefore(i) ==
  (IF \E j \in 1..Len(after) : after[j].id = before[i].id THEN 1 ELSE 0)
    + Cardinality(ChangesNamingBefore(i, {"renamed", "moved"}))
    + Cardinality(ChangesNamingBefore(i, {"deleted"}))

AccountsOfAfter(j) ==
  (IF \E i \in 1..Len(before) : before[i].id = after[j].id THEN 1 ELSE 0)
    + Cardinality(ChangesNamingAfter(j, {"renamed", "moved"}))
    + Cardinality(ChangesNamingAfter(j, {"added"}))

CountOfType(type) ==
  Cardinality({ k \in 1..Len(changes) : changes[k].changeType = type })

\* C28: when the ids of the before list are pairwise distinct and so are the
\* ids of the after list, the call accounts for every entity once: a before
\* entity is matched by its id, or is the before side of one renamed or moved
\* change, or is deleted by one change, and never two of these; an after
\* entity is matched by its id, or is the after side of one renamed or moved
\* change, or is added by one change; so the after list is longer than the
\* before list by the number of added changes less the number of deleted
\* changes.
EntitiesAreConserved ==
  (pc = "done" /\ DistinctIds(before) /\ DistinctIds(after)) =>
    /\ \A i \in 1..Len(before) : AccountsOfBefore(i) = 1
    /\ \A j \in 1..Len(after) : AccountsOfAfter(j) = 1
    /\ Len(after) - Len(before) = CountOfType("added") - CountOfType("deleted")

\* A call that is over with every way of accounting in it: an entity matched
\* by its id, a renamed pair found by its hash, and nothing else on a side.
EntitiesAreConservedWitness ==
  /\ pc = "done" /\ DistinctIds(before) /\ DistinctIds(after)
  /\ Len(before) = 2 /\ Len(after) = 2
  /\ \E i \in 1..2 : \E j \in 1..2 : before[i].id = after[j].id
  /\ CountOfType("renamed") + CountOfType("moved") = 1

\* A call that is over with an entity deleted and two added.
EntitiesAreCountedWitness ==
  /\ pc = "done" /\ DistinctIds(before) /\ DistinctIds(after)
  /\ Len(before) = 1 /\ Len(after) = 2
  /\ CountOfType("deleted") = 1 /\ CountOfType("added") = 2

-----------------------------------------------------------------------------
(* C29 *)

\* The call that was made left what getEntities returns for every snapshot
\* but its own as it was.
OtherSnapshotsKept ==
  \A snapshot \in Snapshots, filePath \in QueryPaths :
    (/\ database'.call.op \in {"insertEntities", "clearSnapshot"}
     /\ database'.call.snapshot # snapshot)
      => getEntities(database'.rows, snapshot, filePath)
           = getEntities(database.rows, snapshot, filePath)

\* C29: snapshots are isolated: insertEntities(E, S) leaves the result of
\* getEntities(S') as it was for every snapshot S' other than S, also when E
\* holds ids that are stored in S', and clearSnapshot(S) removes the entities
\* of S only.
SnapshotsAreIsolated == [][OtherSnapshotsKept]_vars

\* The same of clearSnapshot alone.
ClearSnapshotKeepsTheOthers ==
  [][database'.call.op = "clearSnapshot" =>
       /\ OtherSnapshotsKept
       /\ getEntities(database'.rows, database'.call.snapshot, <<>>) = <<>>]_vars

-----------------------------------------------------------------------------
(* C30 *)

\* Two events less than debounceMs apart: the timer the first has set starts
\* no runDiff; and no timer starts two.
EventsAreDebounced ==
  /\ \A k \in 1..(Len(command.events) - 1) :
       command.events[k + 1] - command.events[k] < DebounceMs =>
         \A r \in 1..Len(command.runs) : command.runs[r].setBy # k
  /\ \A r, q \in 1..Len(command.runs) :
       (r # q /\ command.runs[r].setBy # 0) =>
         command.runs[r].setBy # command.runs[q].setBy

\* The outputs are printed in the order in which their calls of runDiff
\* began, and lastOutput is the output of the last that printed.
RunsPrintInOrder ==
  /\ \A k, l \in 1..Len(command.printed) :
       k < l => command.printed[k].run < command.printed[l].run
  /\ command.printed # <<>> =>
       command.lastOutput = command.printed[Len(command.printed)].output

\* C30: in watchCommand the file events that arrive less than debounceMs
\* apart start one runDiff, and no run overtakes another in the output: the
\* result of a runDiff that began earlier is not printed, nor kept in
\* lastOutput, after the result of one that began later, however the timer
\* callbacks and the pending git calls interleave.
WatchRunsInOrder ==
  command.name = "watch" => (EventsAreDebounced /\ RunsPrintInOrder)

\* The part of it about the timer.
WatchDebounces == command.name = "watch" => EventsAreDebounced

====
